---- MODULE Spec2Model ----
(***************************************************************************)
(* HyperCog enrichment pipeline: HyperCogOrchestrator (orchestrator.py),   *)
(* the EvaluatorAgent with its Perplexity validation fan-out               *)
(* (agents/evaluator.py) and the stage agents it drives.  One orchestrator *)
(* is constructed from the process environment and serves one enrich call; *)
(* every await of the call is a state of pc, every language-model or       *)
(* search response is an input drawn by the action that receives it.       *)
(* Token counts are scaled: a context is its origin and its token count.   *)
(***************************************************************************)
EXTENDS Integers, Sequences, FiniteSets, TLC

\* ---------------------------------------------------------------- bounds
TokBound == 3          \* largest token count of a context
MaxConcurrency == 2    \* largest max_concurrency the orchestrator is built with
MaxSubtasks == 2       \* longest subtask list the Decomposer's model returns

\* ------------------------------------------------------- program constants
DefaultConfidence == 3 \* confidence 0.3, in tenths
max_iterations == 3

NoResult == [status |-> "none"]

\* The sub-agents in the order _dispatch_sub_agents appends their tasks.
AgentOrder == <<"perplexity", "file_search", "cognee_kg", "cognee_vector">>
AgentNames == {AgentOrder[i] : i \in 1..Len(AgentOrder)}

\* The validation criteria in the order _validate_with_perplexity appends them.
CriterionOrder == <<"completeness", "accuracy", "relevance", "depth", "gotchas">>
CriterionNames == {CriterionOrder[i] : i \in 1..Len(CriterionOrder)}

VARIABLES
  env,                 \* names of the credentials set in the environment
  enable_perplexity,   \* ENABLE_PERPLEXITY_VALIDATION == "true"
  constructed,         \* "no" | "ok" | "failed": HyperCogOrchestrator.__init__
  max_tokens_per_task,
  max_concurrency,
  sem_value,           \* free slots of self.semaphore
  sem_waiters,         \* agents waiting for a slot, first come first
  perplexity_agent,    \* the evaluator's lazily built PerplexityAgent
  pc,                  \* the await the enrich call is suspended at
  branch,              \* the arm of "if evaluation['sufficient']" the call is in
  expired,             \* the asyncio.timeout deadline of the call has fired
  outcome,             \* "none" | "result" | "error" | "timeout"
  result,              \* the dictionary enrich returned
  current_context,
  initial_assessment,
  evaluation,
  perplexity_validations, \* criterion -> findings, as _validate_with_perplexity returned them
  synthesis_response,  \* what the synthesis call in flight will answer
  vtasks,              \* validation fan-out: criterion -> task state
  iterations,          \* completed Gap Analyzer rounds
  all_gaps,            \* gaps_identified of the rounds so far
  iteration_result,    \* what the last Gap Analyzer round returned
  chat_completions,    \* chat_completion calls of the Gap Analyzer in this execute
  current_understanding,
  search_queries,      \* agent -> number of queries
  atasks,              \* agent fan-out: agent -> task state
  completed,           \* agent -> what its task ended with
  sub_agent_results,   \* what _dispatch_sub_agents returned to the Consolidator
  enriched_context,
  estimated_tokens,
  consolidation,       \* what consolidator.execute returned
  subtasks,
  subtask_results,
  scrum_calls,         \* contexts the Decomposer was run on
  opt_calls,           \* Optimizer calls of this enrich call, in order
  name,                \* tool name call_tool was invoked with
  arguments,           \* arguments call_tool was invoked with
  tool_response,       \* the JSON document call_tool returned
  agent_name,          \* the sub-agent whose search(queries) is followed query by query
  batch_queries,       \* the list that search was called with
  batch_pending,       \* the queries its loop has not reached yet
  batch_results,       \* the records its loop has appended
  search_pc,           \* "idle" | "searching" | "returned" | "raised" | "cancelled"
  session_context,     \* the lines of the session context an evaluation is given
  prompt_text,         \* the words of (user_intent + " " + current_prompt).lower()
  validation_cache,    \* EvaluatorAgent.validation_cache: cache key -> validation
  technical_claims,    \* per evaluation: the claims _validate_accuracy was called with
  claim_index,         \* per evaluation: position of the claim its loop is at
  validations,         \* per evaluation: the list its loop has built
  accuracy_pc,         \* per evaluation: "idle" | "searching" | "returned" | "raised"
  research_calls,      \* per evaluation: the claims it called perplexity_agent.search for
  round_outputs,       \* the iterations list _synthesize_gaps is given
  hash_seed,           \* per run: the string hash seed of the process it runs in
  synthesized,         \* per run: what _synthesize_gaps returned
  crafted,             \* per run: what _craft_search_queries returned
  clock,               \* datetime.now(), in whole seconds
  session_ids,         \* per enrich call: the session id ContextExtractor gave it
  session_pc,          \* per enrich call of a session: how far it has got
  prompt_store,        \* context files: file name -> the call that wrote it last
  optimized_folder     \* optimized-output files: file name -> the call that wrote it last

vars == <<env, enable_perplexity, constructed, max_tokens_per_task, max_concurrency,
          sem_value, sem_waiters, perplexity_agent, pc, branch, expired, outcome, result,
          current_context, initial_assessment, evaluation, vtasks, iterations,
          all_gaps, search_queries, atasks, completed, sub_agent_results,
          enriched_context, estimated_tokens, consolidation, subtasks,
          subtask_results, scrum_calls, opt_calls, name, arguments,
          tool_response, perplexity_validations, synthesis_response, iteration_result,
          chat_completions,
          current_understanding, agent_name, batch_queries, batch_pending,
          batch_results, search_pc, session_context, prompt_text, validation_cache,
          technical_claims, claim_index, validations, accuracy_pc, research_calls,
          round_outputs, hash_seed, synthesized, crafted, clock, session_ids,
          session_pc, prompt_store, optimized_folder>>

cfgVars == <<env, enable_perplexity, constructed, max_tokens_per_task, max_concurrency>>
semVars == <<sem_value, sem_waiters>>
taskVars == <<vtasks, atasks, sem_value, sem_waiters>>
evalData == <<initial_assessment, evaluation, perplexity_validations, synthesis_response>>
gapVars == <<iterations, all_gaps, search_queries, iteration_result, chat_completions,
            current_understanding>>
fanData == <<completed, sub_agent_results>>
sizeVars == <<enriched_context, estimated_tokens, consolidation>>
callVars == <<name, arguments>>
batchVars == <<agent_name, batch_queries, batch_pending, batch_results, search_pc>>
synthVars == <<round_outputs, hash_seed, synthesized, crafted>>
sessionVars == <<clock, session_ids, session_pc, prompt_store, optimized_folder>>
evaluatorVars == <<session_context, prompt_text, validation_cache, technical_claims,
                   claim_index, validations, accuracy_pc, research_calls>>

NoContext == [origin |-> "none", tokens |-> 0]
NoAssessment == [sufficient |-> FALSE, confidence |-> 0, reasoning |-> "none"]
NoTasks == [k \in CriterionNames |-> "none"]
NoAgents == [a \in AgentNames |-> "none"]
Pending == [kind |-> "pending"]
NothingCompleted == [a \in AgentNames |-> Pending]
EmptyDict == [a \in {} |-> <<>>]
NoQueries == [a \in AgentNames |-> 0]
NoIteration == [kind |-> "none"]
NoArguments == [kind |-> "none"]
NoResponse == [status |-> "none"]
NoConsolidation == [kind |-> "none"]

\* ------------------------------------------------------------ exceptions
\* "Exception" stands for any failure a collaborator raises (network error,
\* KeyError, ...); asyncio.CancelledError derives from BaseException.
CancelledError == "CancelledError"
StageError == "Exception"
KeyError == "KeyError"
TimeoutError == "TimeoutError"

\* A handler written as a bare `except:` (or `except BaseException`).
CatchesBaseException(exc) == TRUE

\* `except Exception` around one subtask's Optimizer call.
SubtaskHandlerCatches(exc) == exc # CancelledError

\* `except Exception` around validation and synthesis in evaluate.
EvaluateHandlerCatches(exc) == exc # CancelledError

\* ---------------------------------------------------------- construction
Credentials == {"OPENAI_API_KEY", "PERPLEXITY_API_KEY", "GOOGLE_API_KEY"}

\* Each constructor returns TRUE when it completes, FALSE when it raises.
LLMClientInit(e) == "OPENAI_API_KEY" \in e
PerplexityAgentInit(e) == "PERPLEXITY_API_KEY" \in e
FileSearchAgentInit(e) == "GOOGLE_API_KEY" \in e
CogneeKGAgentInit(e) == TRUE
CogneeVectorAgentInit(e) == TRUE

\* HyperCogOrchestrator.__init__ builds the four sub-agents inline.
OrchestratorInit(e) ==
  /\ PerplexityAgentInit(e)
  /\ CogneeKGAgentInit(e)
  /\ CogneeVectorAgentInit(e)
  /\ FileSearchAgentInit(e)

\* ------------------------------------------------------------- contexts
SessionContexts == [origin : {"session"}, tokens : 1..TokBound]
EnrichedContexts == [origin : {"llm"}, tokens : 1..TokBound]

\* TokenCounter.count_tokens
count_tokens(text) == IF text.tokens = 0 THEN 0 ELSE text.tokens

\* ------------------------------------------------------------ evaluator
ConfidenceValues == {1, 9}
\* What the language model answers: text json.loads rejects, or an object
\* holding any of the fields.
EvaluationResponses ==
  [kind : {"malformed"}]
  \cup [kind : {"object"}]
  \cup [kind : {"object"}, sufficient : BOOLEAN]
  \cup [kind : {"object"}, confidence : ConfidenceValues]
  \cup [kind : {"object"}, sufficient : BOOLEAN, confidence : ConfidenceValues]

\* What the synthesis call ends with: a response, or an exception.
NoReply == [kind |-> "none"]
SynthesisReplies == EvaluationResponses \cup {[kind |-> "raised"]}

_parse_evaluation_response(response) ==
  IF response.kind = "malformed"
    THEN [sufficient |-> FALSE, confidence |-> DefaultConfidence,
          reasoning |-> "Failed to parse evaluation response"]
    ELSE [sufficient |-> IF "sufficient" \notin DOMAIN response THEN FALSE
                         ELSE response.sufficient,
          confidence |-> IF "confidence" \notin DOMAIN response THEN DefaultConfidence
                         ELSE response.confidence,
          reasoning |-> "llm"]

\* The criteria _validate_with_perplexity selects: conds are the conditional
\* criteria whose condition holds for this assessment, context and prompt.
ConditionalCriteria == {"completeness", "accuracy", "relevance", "depth"}
SelectedCriteria(conds) == conds \cup {"gotchas"}

\* A gather without return_exceptions: one failed validation leaves no findings.
ValidationResultsAllOrNothing(tasks) ==
  [k \in {c \in CriterionNames : tasks[c] # "none"} |->
     IF \A c \in CriterionNames : tasks[c] # "failed" THEN <<k>> ELSE <<>>]

\* results[name] of _validate_with_perplexity
ValidationResults(tasks) ==
  [k \in {c \in CriterionNames : tasks[c] # "none"} |->
     IF tasks[k] = "ok" THEN <<k>> ELSE <<>>]

\* --------------------------------------------------------- gap analyzer
\* A gap string is the set of keywords it contains.
GapStrings == {{"must", "api"}, {"should", "how"}, {"must"}, {}}
CriticalWords == {"must", "required", "critical", "essential"}
ImportantWords == {"should", "important", "necessary"}

critical(gaps) == {g \in gaps : g \cap CriticalWords # {}}
important(gaps) == {g \in gaps \ critical(gaps) : g \cap ImportantWords # {}}

\* _craft_search_queries, as the number of queries per sub-agent
_craft_search_queries(gaps) ==
  LET routed == critical(gaps) \cup important(gaps) IN
  [a \in AgentNames |->
     CASE a = "perplexity" -> Cardinality(routed)
       [] a = "cognee_vector" -> Cardinality(routed)
       [] a = "cognee_kg" -> Cardinality({g \in routed : g \cap {"how", "what"} # {}})
       [] a = "file_search" -> Cardinality({g \in routed : g \cap {"documentation", "api"} # {}})]

\* ----------------------------------------------------------- sub-agents
\* One record per query, in query order.
SearchResults(a, n) == [i \in 1..n |-> [query |-> i, source |-> a]]

\* ------------------------------------------------------------- results
ManageablePath(b) == IF b = "sufficient" THEN "sufficient_manageable" ELSE "enriched_manageable"
ScrumPath(b) == IF b = "sufficient" THEN "sufficient_too_large_scrum" ELSE "enriched_too_large_scrum"

ReadyResult(b, optimized) ==
  [status |-> "ready_for_execution", optimized_context |-> optimized, path |-> ManageablePath(b)]

\* The scrum return statement carrying the status of the manageable one.
SubtasksResultMarkedReady(b, results) ==
  [status |-> "ready_for_execution", subtask_results |-> results, path |-> ScrumPath(b)]

SubtasksResult(b, results) ==
  [status |-> "subtasks_completed", subtask_results |-> results, path |-> ScrumPath(b)]

\* The size gates written with a strict comparison.
SufficientManageableStrict(tokens) == tokens < max_tokens_per_task
EnrichedManageableStrict(tokens) == tokens < max_tokens_per_task

\* The size gate of the sufficient branch and of the enriched branch.
SufficientManageable(tokens) == tokens <= max_tokens_per_task
EnrichedManageable(tokens) == tokens <= max_tokens_per_task


\* ------------------------------------------------------- initial state
\* No enrich call has left anything behind.
FrameIdle ==
  /\ sem_waiters = <<>>
  /\ perplexity_agent = "None"
  /\ expired = FALSE
  /\ outcome = "none"
  /\ result = NoResult
  /\ initial_assessment = NoAssessment
  /\ evaluation = NoAssessment
  /\ perplexity_validations = EmptyDict
  /\ synthesis_response = NoReply
  /\ vtasks = NoTasks
  /\ iterations = 0
  /\ all_gaps = {}
  /\ iteration_result = NoIteration
  /\ chat_completions = 0
  /\ search_queries = NoQueries
  /\ atasks = NoAgents
  /\ completed = NothingCompleted
  /\ sub_agent_results = EmptyDict
  /\ enriched_context = NoContext
  /\ estimated_tokens = 0
  /\ consolidation = NoConsolidation
  /\ subtasks = <<>>
  /\ subtask_results = <<>>
  /\ scrum_calls = <<>>
  /\ opt_calls = <<>>
  /\ name = "none"
  /\ arguments = NoArguments
  /\ tool_response = NoResponse

\* No sub-agent batch is being followed.
BatchIdle ==
  /\ agent_name = "none"
  /\ batch_queries = <<>>
  /\ batch_pending = <<>>
  /\ batch_results = <<>>
  /\ search_pc = "idle"

\* The evaluate calls followed on one Evaluator.
Evaluations == {1, 2}

\* The Evaluator has validated nothing: its cache is empty.
\* The runs of the gap synthesis: one per server process.
Runs == {1, 2}
NoGaps == [kind |-> "none"]
NoQuerySet == [kind |-> "none"]

\* The enrich calls followed on one orchestrator.
Calls == {1, 2}
NoSession == [kind |-> "none"]

\* The clock counts instants; TicksPerSecond of them fall into one second.
TicksPerSecond == 2

\* datetime.now().strftime("%Y%m%d_%H%M%S"): the text of instant t's second
strftime(t) == [kind |-> "stamp", second |-> t \div TicksPerSecond]

\* self.prompt_store / f"{session_id}_context.json"
ContextFile(sid) == [session_id |-> sid, suffix |-> "_context.json"]

\* self.optimized_folder / f"{session_id}_{timestamp}_optimized.json"
OptimizedFile(sid, timestamp) ==
  [session_id |-> sid, timestamp |-> timestamp, suffix |-> "_optimized.json"]

\* Path.write_text: the file is created, or its content replaced.
write_text(folder, file, content) ==
  [f \in DOMAIN folder \cup {file} |-> IF f = file THEN content ELSE folder[f]]

\* A subtask's Optimizer call made under the parent's session id.
SubtaskSessionParentOnly(parent, id) == parent

\* f"{session_id}_subtask_{subtask['id']}"
SubtaskSession(parent, id) == [kind |-> "subtask", parent |-> parent, subtask |-> id]

\* No enrich call has extracted its context.
SessionIdle ==
  /\ clock = 1
  /\ session_ids = [c \in Calls |-> NoSession]
  /\ session_pc = [c \in Calls |-> "idle"]
  /\ prompt_store = EmptyDict
  /\ optimized_folder = EmptyDict

\* No gap synthesis has run.
SynthIdle ==
  /\ round_outputs = <<>>
  /\ hash_seed = [r \in Runs |-> 1]
  /\ synthesized = [r \in Runs |-> NoGaps]
  /\ crafted = [r \in Runs |-> NoQuerySet]

EvaluatorIdle ==
  /\ session_context = <<>>
  /\ prompt_text = {}
  /\ validation_cache = EmptyDict
  /\ technical_claims = [e \in Evaluations |-> <<>>]
  /\ claim_index = [e \in Evaluations |-> 0]
  /\ validations = [e \in Evaluations |-> <<>>]
  /\ accuracy_pc = [e \in Evaluations |-> "idle"]
  /\ research_calls = [e \in Evaluations |-> <<>>]

Init ==
  /\ env \in SUBSET Credentials
  /\ enable_perplexity \in BOOLEAN
  /\ constructed = "no"
  /\ max_tokens_per_task = 0
  /\ max_concurrency = 0
  /\ sem_value = 0
  /\ pc = "idle"
  /\ branch = "none"
  /\ current_context = NoContext
  /\ current_understanding = NoContext
  /\ FrameIdle
  /\ BatchIdle
  /\ EvaluatorIdle
  /\ SynthIdle
  /\ SessionIdle

\* server.main: LLMClient() and then HyperCogOrchestrator(storage_root, llm_client).
\* The token limit is built one below the largest context, so that contexts
\* under, at and over the limit all occur.
Construct ==
  /\ constructed = "no"
  /\ IF LLMClientInit(env) /\ OrchestratorInit(env)
       THEN \E mc \in 1..MaxConcurrency :
              /\ constructed' = "ok"
              /\ max_tokens_per_task' = TokBound - 1
              /\ max_concurrency' = mc
              /\ sem_value' = mc
       ELSE /\ constructed' = "failed"
            /\ UNCHANGED <<max_tokens_per_task, max_concurrency, sem_value>>
  /\ UNCHANGED <<env, enable_perplexity, sem_waiters, perplexity_agent, expired, vtasks,
                 atasks, pc, branch, outcome, result, tool_response, current_context, evalData, gapVars,
                 fanData, sizeVars, subtasks, subtask_results, scrum_calls, opt_calls,
                 callVars, batchVars, evaluatorVars, synthVars, sessionVars>>

\* -------------------------------------------------- steps shared by actions
\* Each of these fixes every local of the call (pc to opt_calls); the actions
\* add what happens to the tasks, the semaphore and the evaluator's agent.

\* enrich raises: a stage failure or the timeout.  The frame of the call is gone.
Abort(how) ==
  /\ pc' = "done"
  /\ outcome' = how
  /\ result' = NoResult
  /\ branch' = "none"
  /\ current_context' = NoContext
  /\ initial_assessment' = NoAssessment
  /\ evaluation' = NoAssessment
  /\ perplexity_validations' = EmptyDict
  /\ synthesis_response' = NoReply
  /\ iterations' = 0
  /\ all_gaps' = {}
  /\ iteration_result' = NoIteration
  /\ chat_completions' = 0
  /\ current_understanding' = NoContext
  /\ search_queries' = NoQueries
  /\ completed' = NothingCompleted
  /\ sub_agent_results' = EmptyDict
  /\ enriched_context' = NoContext
  /\ estimated_tokens' = 0
  /\ consolidation' = NoConsolidation
  /\ subtasks' = <<>>
  /\ subtask_results' = <<>>
  /\ scrum_calls' = <<>>
  /\ opt_calls' = <<>>

\* A call_tool whose handlers are `except asyncio.TimeoutError` alone.
ToolHandlerCatchesTimeoutOnly(exc) == exc = TimeoutError

\* call_tool: `except asyncio.TimeoutError` and `except Exception` around enrich.
ToolHandlerCatches(exc) == exc # CancelledError

\* What call_tool returns when enrich raised exc; an exception no handler
\* catches leaves call_tool.
ErrorResponse(exc) ==
  IF ToolHandlerCatches(exc)
    THEN [error |-> IF exc = TimeoutError
                      THEN "Enrichment timeout - operation took too long" ELSE exc,
          status |-> "failed"]
    ELSE [exception |-> exc, status |-> "raised"]

\* enrich raises exc into call_tool.
Raise(exc) ==
  /\ Abort(IF exc = TimeoutError THEN "timeout" ELSE "error")
  /\ tool_response' = ErrorResponse(exc)

\* The input of optimizer.execute: context_to_optimize and session_id.
OptCall(target, ctx, sid) ==
  [target |-> target, context |-> ctx, session_id |-> sid, state |-> "running"]

\* The Optimizer call in flight ends in state s.
EndOptCall(s) == [opt_calls EXCEPT ![Len(opt_calls)].state = s]

\* What OptimizerAgent.execute returns for the call in flight.
OptimizerOutput == [call |-> Len(opt_calls)]

\* Lines 96-118 and 151-173: the Optimizer is called on the whole context, or
\* the Decomposer on it.
Gate(b, ctx, manageable) ==
  /\ branch' = b
  /\ IF manageable
       THEN /\ pc' = "optimize"
            /\ opt_calls' = Append(opt_calls, OptCall("whole", ctx, session_ids[1]))
            /\ scrum_calls' = scrum_calls
       ELSE /\ pc' = "scrum"
            /\ opt_calls' = opt_calls
            /\ scrum_calls' = Append(scrum_calls, ctx)
  /\ UNCHANGED <<outcome, result, tool_response, subtasks, subtask_results>>

\* evaluate returned ev: line 91 of _enrich_internal onwards.
AfterEvaluation(ev) ==
  /\ evaluation' = ev
  /\ initial_assessment' = NoAssessment
  /\ perplexity_validations' = EmptyDict
  /\ synthesis_response' = NoReply
  /\ IF ev.sufficient
       THEN /\ Gate("sufficient", current_context,
                    SufficientManageable(count_tokens(current_context)))
            /\ UNCHANGED current_understanding
       ELSE /\ pc' = "thinking"
            /\ branch' = "enriched"
            /\ current_understanding' = current_context
            /\ UNCHANGED <<outcome, result, tool_response, subtasks, subtask_results,
                           opt_calls, scrum_calls>>
  /\ UNCHANGED <<current_context, iterations, all_gaps, search_queries, iteration_result,
                 chat_completions,
                 fanData, sizeVars>>

\* --------------------------------------------------------------- enrich
\* enrich: the deadline is armed, the context extracted (no await suspends
\* there) and the static assessment's language-model call is in flight.
StartEnrich(ctx) ==
  /\ current_context' = ctx
  /\ session_ids' = [session_ids EXCEPT ![1] = strftime(clock)]
  /\ session_pc' = [session_pc EXCEPT ![1] = "extracted"]
  /\ prompt_store' = write_text(prompt_store, ContextFile(strftime(clock)), 1)
  /\ pc' = "static"
  /\ UNCHANGED tool_response

\* ------------------------------------------------------------ call_tool
ToolNames == {"hypercog_enrich", "other_tool"}
TaskStrings == {"", "task"}

\* The empty string given as session_context.
EmptyContext == [origin |-> "session", tokens |-> 0]

\* JSON objects a caller sends: either required field may be missing or empty.
ToolArguments ==
  [task : TaskStrings, session_context : SessionContexts \cup {EmptyContext}]
  \cup [task : TaskStrings]
  \cup [session_context : SessionContexts \cup {EmptyContext}]

\* An EnrichInput whose string fields carry no min_length.
EnrichInputNoMinLength(args) ==
  {[loc |-> f, type |-> "missing"] : f \in {"task", "session_context"} \ DOMAIN args}

\* EnrichInput(**arguments): the errors of the ValidationError it raises,
\* none when the input validates.
EnrichInput(args) ==
  {[loc |-> f, type |-> "missing"] : f \in {"task", "session_context"} \ DOMAIN args}
  \cup {[loc |-> f, type |-> "string_too_short"] :
          f \in {g \in {"task"} \cap DOMAIN args : args[g] = ""}}
  \cup {[loc |-> f, type |-> "string_too_short"] :
          f \in {g \in {"session_context"} \cap DOMAIN args : count_tokens(args[g]) = 0}}

\* call_tool returns r without calling enrich.
Reject(r) ==
  /\ tool_response' = r
  /\ pc' = "done"
  /\ UNCHANGED <<current_context, session_ids, session_pc, prompt_store>>

\* call_tool: unknown tools and invalid input are answered at once; otherwise
\* enrich is called with the validated task and context.
call_tool ==
  /\ constructed = "ok"
  /\ pc = "idle"
  /\ \E n \in ToolNames, args \in ToolArguments :
       /\ name' = n
       /\ arguments' = args
       /\ IF n # "hypercog_enrich"
            THEN Reject([error |-> "Unknown tool", status |-> "failed"])
            ELSE IF EnrichInput(args) # {}
              THEN Reject([error |-> "Input validation failed",
                           details |-> EnrichInput(args), status |-> "failed"])
              ELSE StartEnrich(args.session_context)
  /\ UNCHANGED <<cfgVars, batchVars, evaluatorVars, synthVars, clock,
                 optimized_folder, taskVars, perplexity_agent, expired, branch, outcome,
                 result, evalData, gapVars, fanData, sizeVars, subtasks, subtask_results,
                 scrum_calls, opt_calls>>

\* EvaluatorAgent._init_perplexity
_init_perplexity(agent) ==
  IF agent = "None"
    THEN IF PerplexityAgentInit(env) THEN "agent" ELSE "None"
    ELSE agent

\* _perform_static_assessment returns; evaluate either starts the validation
\* fan-out (asyncio.gather over the selected criteria) or returns the static verdict.
StaticAssessment ==
  /\ pc = "static"
  /\ \E response \in EvaluationResponses :
       LET ia == _parse_evaluation_response(response)
           agent == IF enable_perplexity THEN _init_perplexity(perplexity_agent)
                    ELSE perplexity_agent
       IN
       /\ perplexity_agent' = agent
       /\ IF enable_perplexity /\ agent # "None"
            THEN \E conds \in SUBSET ConditionalCriteria :
                   /\ vtasks' = [k \in CriterionNames |->
                                   IF k \in SelectedCriteria(conds) THEN "running" ELSE "none"]
                   /\ initial_assessment' = ia
                   /\ pc' = "validating"
                   /\ UNCHANGED <<evaluation, perplexity_validations, synthesis_response, branch, outcome, result, tool_response, current_context,
                                  gapVars, fanData, sizeVars, subtasks, subtask_results,
                                  scrum_calls, opt_calls>>
            ELSE /\ AfterEvaluation(ia)
                 /\ UNCHANGED vtasks
  /\ UNCHANGED <<cfgVars, batchVars, evaluatorVars, synthVars, sessionVars, callVars, expired, atasks, semVars>>

\* One validation query ends: perplexity_agent.search returned or raised.
ValidationTaskDone(k) ==
  /\ pc = "validating"
  /\ vtasks[k] = "running"
  /\ \E how \in {"ok", "failed"} : vtasks' = [vtasks EXCEPT ![k] = how]
  /\ UNCHANGED <<cfgVars, batchVars, evaluatorVars, synthVars, sessionVars, callVars, expired, perplexity_agent, atasks, semVars, pc, branch, outcome,
                 result, tool_response, current_context, evalData, gapVars, fanData, sizeVars, subtasks,
                 subtask_results, scrum_calls, opt_calls>>

\* asyncio.gather(*validation_tasks, return_exceptions=True) returns; the
\* synthesis call is issued.
ValidationJoin ==
  /\ pc = "validating"
  /\ \A k \in CriterionNames : vtasks[k] # "running"
  /\ pc' = "synthesis"
  /\ perplexity_validations' = ValidationResults(vtasks)
  /\ synthesis_response' \in SynthesisReplies
  /\ UNCHANGED <<cfgVars, batchVars, evaluatorVars, synthVars, sessionVars, callVars, expired, perplexity_agent, taskVars, branch, outcome,
                 result, tool_response, current_context, initial_assessment, evaluation,
                 gapVars, fanData, sizeVars, subtasks, subtask_results, scrum_calls,
                 opt_calls>>

\* A synthesis that answers a response it cannot parse with the static verdict.
SynthesisFallsBackToStatic(initial, response) ==
  IF response.kind = "malformed" THEN initial ELSE _parse_evaluation_response(response)

\* _synthesize_assessment: return self._parse_evaluation_response(response)
_synthesize_assessment(initial, response) == _parse_evaluation_response(response)

\* _synthesize_assessment returns the parsed synthesis response.
Synthesis ==
  /\ pc = "synthesis"
  /\ synthesis_response.kind # "raised"
  /\ AfterEvaluation(_synthesize_assessment(initial_assessment, synthesis_response))
  /\ vtasks' = NoTasks
  /\ UNCHANGED <<cfgVars, batchVars, evaluatorVars, synthVars, sessionVars, callVars, expired, perplexity_agent, atasks, semVars>>

\* The synthesis call raises: evaluate logs it and returns the static verdict.
SynthesisRaises ==
  /\ pc = "synthesis"
  /\ synthesis_response.kind = "raised"
  /\ IF EvaluateHandlerCatches(StageError)
       THEN AfterEvaluation(initial_assessment)
       ELSE Raise(StageError)
  /\ vtasks' = NoTasks
  /\ UNCHANGED <<cfgVars, batchVars, evaluatorVars, synthVars, sessionVars, callVars, expired, perplexity_agent, atasks, semVars>>

\* ------------------------------------------------------ gap analysis
RefinedUnderstanding == [origin |-> "refined", tokens |-> 1]

IterationResponses ==
  [kind : {"malformed"}]
  \cup [kind : {"object"}]
  \cup [kind : {"object"},
        gaps_identified : {S \in SUBSET GapStrings : Cardinality(S) <= 1}]
  \cup [kind : {"object"},
        gaps_identified : {S \in SUBSET GapStrings : Cardinality(S) <= 1},
        refined_understanding : {RefinedUnderstanding}]

\* A round that drops out of the loop's state when its response does not parse.
ParseFailureResetsUnderstanding(response, understanding) ==
  IF response.kind = "malformed"
    THEN [kind |-> "fallback", understanding |-> "Failed to parse",
          gaps_identified |-> {}, refined_understanding |-> NoContext]
    ELSE response

\* _hermeneutic_iteration: the parsed response, or the no-gaps fallback.
_hermeneutic_iteration(response, understanding) ==
  IF response.kind = "malformed"
    THEN [kind |-> "fallback", understanding |-> "Failed to parse",
          gaps_identified |-> {}, refined_understanding |-> understanding]
    ELSE response

\* iteration.get("gaps_identified", []) in _synthesize_gaps
IterationGaps(iteration) ==
  IF "gaps_identified" \in DOMAIN iteration THEN iteration.gaps_identified ELSE {}

\* iteration_result.get("refined_understanding", current_understanding)
RefinedOr(iteration, understanding) ==
  IF "refined_understanding" \in DOMAIN iteration
    THEN iteration.refined_understanding ELSE understanding

\* A dispatch that creates a task for every collaborator, queries or not.
DispatchedOrderAll(queries) == AgentOrder

\* The tasks _dispatch_sub_agents creates, in creation order.
DispatchedOrder(queries) == SelectSeq(AgentOrder, LAMBDA a : queries[a] > 0)

\* _run_with_semaphore, first step of every task in creation order: the first
\* `free` tasks take a slot, the others queue behind them.
Admit(order, free) ==
  [a \in AgentNames |->
     IF \E i \in 1..Len(order) : order[i] = a
       THEN IF (CHOOSE i \in 1..Len(order) : order[i] = a) <= free
              THEN "running" ELSE "waiting"
       ELSE "none"]

\* What the loop of lines 218-224 stores for an agent.
GatherEntry(done) == IF done.kind = "list" THEN done.value ELSE <<>>

\* A gather without per-task isolation: one failure empties every entry.
GatherResultsAllOrNothing(tasks, done) ==
  [a \in {x \in AgentNames : tasks[x] # "none"} |->
     IF \E x \in AgentNames : done[x].kind = "raised" THEN <<>> ELSE GatherEntry(done[a])]

\* dict returned by _dispatch_sub_agents
GatherResults(tasks, done) ==
  [a \in {x \in AgentNames : tasks[x] # "none"} |-> GatherEntry(done[a])]

\* A pipeline that evaluates again once the agents have answered.
StartReevaluation(r) ==
  /\ sub_agent_results' = r
  /\ pc' = "static"

\* _dispatch_sub_agents returned r: the Consolidator's call is in flight.
StartConsolidator(r) ==
  /\ sub_agent_results' = r
  /\ pc' = "consolidate"

\* One Gap Analyzer round returns; after the last one the queries are crafted
\* and the sub-agents dispatched.
HermeneuticIteration ==
  /\ pc = "thinking"
  /\ \E response \in IterationResponses :
       LET round == _hermeneutic_iteration(response, current_understanding)
           gaps == all_gaps \cup IterationGaps(round)
           queries == _craft_search_queries(gaps)
           order == DispatchedOrder(queries)
           admitted == Admit(order, sem_value)
       IN
       /\ iterations' = iterations + 1
       /\ IF iterations + 1 < max_iterations
            THEN /\ all_gaps' = gaps
                 /\ iteration_result' = round
                 /\ chat_completions' = chat_completions + 1
                 /\ current_understanding' = RefinedOr(round, current_understanding)
                 /\ UNCHANGED <<pc, search_queries, atasks, semVars, fanData>>
            ELSE /\ all_gaps' = {}
                 /\ iteration_result' = NoIteration
                 /\ chat_completions' = 0
                 /\ current_understanding' = NoContext
                 /\ search_queries' = queries
                 /\ atasks' = admitted
                 /\ sem_value' = IF Len(order) < sem_value THEN sem_value - Len(order) ELSE 0
                 /\ sem_waiters' = SelectSeq(order, LAMBDA a : admitted[a] = "waiting")
                 /\ completed' = NothingCompleted
                 /\ IF order = <<>>
                      THEN StartConsolidator(EmptyDict)
                      ELSE /\ pc' = "dispatch"
                           /\ UNCHANGED sub_agent_results
  /\ UNCHANGED <<cfgVars, batchVars, evaluatorVars, synthVars, sessionVars, callVars, expired, perplexity_agent, vtasks, branch, outcome, result, tool_response,
                 current_context, evalData, sizeVars, subtasks, subtask_results,
                 scrum_calls, opt_calls>>

\* What a batch can end with: its list of records, or an exception.
BatchEnds(a) ==
  {[kind |-> "list", value |-> SearchResults(a, search_queries[a])],
   [kind |-> "raised"]}

\* A batch that ends without giving its slot back.
ReleaseNothing == UNCHANGED <<sem_value, sem_waiters>>

\* Leaving `async with self.semaphore`: the slot goes to the first waiter.
Release ==
  IF sem_waiters = <<>>
    THEN /\ sem_value' = sem_value + 1
         /\ sem_waiters' = sem_waiters
    ELSE /\ sem_value' = sem_value
         /\ sem_waiters' = Tail(sem_waiters)

\* One sub-agent's search ends and its task leaves the semaphore.
AgentBatchDone(a) ==
  /\ pc = "dispatch"
  /\ atasks[a] = "running"
  /\ \E ends \in BatchEnds(a) : completed' = [completed EXCEPT ![a] = ends]
  /\ Release
  /\ atasks' = [x \in AgentNames |->
                  IF x = a THEN "finished"
                  ELSE IF sem_waiters # <<>> /\ x = Head(sem_waiters) THEN "running"
                  ELSE atasks[x]]
  /\ UNCHANGED <<cfgVars, batchVars, evaluatorVars, synthVars, sessionVars, callVars, expired, perplexity_agent, vtasks, pc, branch, outcome, result, tool_response,
                 current_context, evalData, gapVars, sub_agent_results, sizeVars,
                 subtasks, subtask_results, scrum_calls, opt_calls>>

\* A race instead of a join: the wait ends with the first task that ends.
JoinedFirstCompleted(tasks) == \E a \in AgentNames : tasks[a] = "finished"

\* asyncio.gather(..., return_exceptions=True) has every task's outcome.
Joined(tasks) == \A a \in AgentNames : tasks[a] \in {"none", "finished"}

\* gather returns; the results are organised and handed to the Consolidator.
DispatchJoin ==
  /\ pc = "dispatch"
  /\ Joined(atasks)
  /\ StartConsolidator(GatherResults(atasks, completed))
  /\ UNCHANGED <<cfgVars, batchVars, evaluatorVars, synthVars, sessionVars, callVars, expired, perplexity_agent, taskVars, branch, outcome, result, tool_response,
                 current_context, evalData, gapVars, completed, sizeVars, subtasks,
                 subtask_results, scrum_calls, opt_calls>>

\* ------------------------------------------------------- consolidation
ConsolidationResponses ==
  [kind : {"malformed"}]
  \cup [kind : {"object"}]
  \cup [kind : {"object"}, enriched_context : EnrichedContexts]
  \cup [kind : {"object"}, enriched_context : EnrichedContexts,
        estimated_tokens : 0..TokBound]

\* A fallback that hands on nothing of the original context.
ConsolidationDropsContext(response) ==
  IF response.kind = "malformed"
    THEN [kind |-> "fallback", enriched_context |-> EmptyContext,
          estimated_tokens |-> 0, quality_score |-> 0]
    ELSE response

\* ConsolidatorAgent.execute: the parsed response, or the no-op fallback.
Consolidation(response) ==
  IF response.kind = "malformed"
    THEN [kind |-> "fallback", enriched_context |-> current_context,
          estimated_tokens |-> 0, quality_score |-> 0]
    ELSE response

\* consolidation.get("estimated_tokens", count_tokens(enriched_context))
EstimatedTokens(returned) ==
  IF "estimated_tokens" \notin DOMAIN returned
    THEN count_tokens(returned.enriched_context)
    ELSE returned.estimated_tokens

\* The Consolidator returns and the size gate of the enriched branch is taken;
\* a response without enriched_context raises KeyError at line 148.
ConsolidateDone ==
  /\ pc = "consolidate"
  /\ \E response \in ConsolidationResponses :
       LET returned == Consolidation(response) IN
       IF "enriched_context" \notin DOMAIN returned
         THEN Raise(KeyError)
         ELSE /\ consolidation' = returned
              /\ enriched_context' = returned.enriched_context
              /\ estimated_tokens' = EstimatedTokens(returned)
              /\ Gate("enriched", returned.enriched_context,
                      EnrichedManageable(EstimatedTokens(returned)))
              /\ search_queries' = NoQueries
              /\ completed' = NothingCompleted
              /\ sub_agent_results' = EmptyDict
              /\ UNCHANGED <<current_context, evalData, iterations, all_gaps,
                             iteration_result, chat_completions, current_understanding>>
  /\ atasks' = NoAgents
  /\ UNCHANGED <<cfgVars, batchVars, evaluatorVars, synthVars, sessionVars, callVars, expired, perplexity_agent, vtasks, semVars>>

\* ------------------------------------------------------------ optimizer
\* The Optimizer returns on a manageable path: enrich returns its result.
OptimizeDone ==
  /\ pc = "optimize"
  /\ opt_calls' = EndOptCall("done")
  /\ pc' = "done"
  /\ outcome' = "result"
  /\ result' = ReadyResult(branch, OptimizerOutput)
  /\ tool_response' = ReadyResult(branch, OptimizerOutput)
  /\ UNCHANGED <<cfgVars, batchVars, evaluatorVars, synthVars, sessionVars, callVars, expired, perplexity_agent, taskVars, branch, current_context,
                 evalData, gapVars, fanData, sizeVars, subtasks, subtask_results,
                 scrum_calls>>

\* ----------------------------------------------------------- decomposer
SubtaskIds == 1..MaxSubtasks
LlmSubtask(i) == [id |-> i, context |-> [origin |-> "subtask", tokens |-> 1]]
\* A subtask without "context" (or "description"): building the Optimizer's
\* input raises KeyError inside the try of _execute_subtasks.
IncompleteSubtask == [id |-> 1]

\* A subtask without "id" (or "name"): line 250 raises KeyError before the try.
UnnamedSubtask == [context |-> [origin |-> "subtask", tokens |-> 1]]

SubtaskLists ==
  UNION {[1..n -> {LlmSubtask(i) : i \in SubtaskIds}
                    \cup {IncompleteSubtask, UnnamedSubtask}] : n \in 0..MaxSubtasks}

BreakdownResponses ==
  [kind : {"malformed"}]
  \cup [kind : {"object"}]
  \cup [kind : {"object"}, subtasks : SubtaskLists]

\* ScrumAgent.execute: the parsed response, or the single-subtask fallback.
Breakdown(response, ctx) ==
  IF response.kind = "malformed"
    THEN [kind |-> "fallback",
          subtasks |-> <<[id |-> 1, context |-> ctx, dependencies |-> {},
                          execution_order |-> 1]>>]
    ELSE response

ReadyRecord(subtask, optimized) ==
  [subtask_id |-> subtask.id, optimized_context |-> optimized,
   status |-> "ready_for_execution"]

\* A failure record that does not say what failed.
FailedRecordSilent(subtask, exc) ==
  [subtask_id |-> subtask.id, error |-> "", status |-> "failed"]

\* The failure record carrying the status of the success record.
FailedRecordMarkedReady(subtask, exc) ==
  [subtask_id |-> subtask.id, error |-> exc, status |-> "ready_for_execution"]

FailedRecord(subtask, exc) ==
  [subtask_id |-> subtask.id, error |-> exc, status |-> "failed"]

\* The loop of _execute_subtasks runs on without suspending over the subtasks
\* whose Optimizer input cannot be built: each gets its failure record.
RECURSIVE SkipIncomplete(_, _)
SkipIncomplete(list, records) ==
  IF /\ Len(records) < Len(list)
     /\ "id" \in DOMAIN list[Len(records) + 1]
     /\ "context" \notin DOMAIN list[Len(records) + 1]
     /\ SubtaskHandlerCatches(KeyError)
    THEN SkipIncomplete(list, Append(records, FailedRecord(list[Len(records) + 1], KeyError)))
    ELSE records

\* _execute_subtasks on `list` after `records` were appended, the Optimizer
\* calls so far being `calls`: the next subtask's call is issued, or a KeyError
\* leaves the loop, or the records are returned and enrich returns its result.
ContinueSubtasks(list, records, calls) ==
  LET done == SkipIncomplete(list, records) IN
  IF Len(done) < Len(list) /\ "id" \notin DOMAIN list[Len(done) + 1]
    THEN Raise(KeyError)
    ELSE /\ subtasks' = list
         /\ subtask_results' = done
         /\ IF Len(done) < Len(list)
              THEN /\ pc' = "subtasks"
                   /\ opt_calls' = Append(calls, OptCall(list[Len(done) + 1].id,
                                                         list[Len(done) + 1].context,
                                                         SubtaskSession(session_ids[1],
                                                                        list[Len(done) + 1].id)))
                   /\ UNCHANGED <<outcome, result, tool_response>>
              ELSE /\ opt_calls' = calls
                   /\ pc' = "done"
                   /\ outcome' = "result"
                   /\ result' = SubtasksResult(branch, done)
                   /\ tool_response' = SubtasksResult(branch, done)
         /\ UNCHANGED <<branch, current_context, evalData, gapVars, fanData, sizeVars,
                        scrum_calls>>

\* The Decomposer returns; a response without "subtasks" raises KeyError.
ScrumDone ==
  /\ pc = "scrum"
  /\ \E response \in BreakdownResponses :
       LET breakdown == Breakdown(response, scrum_calls[Len(scrum_calls)]) IN
       IF "subtasks" \notin DOMAIN breakdown
         THEN Raise(KeyError)
         ELSE ContinueSubtasks(breakdown.subtasks, <<>>, opt_calls)
  /\ UNCHANGED <<cfgVars, batchVars, evaluatorVars, synthVars, sessionVars, callVars, expired, perplexity_agent, taskVars>>

\* The Optimizer returns for the subtask in turn.
SubtaskDone ==
  /\ pc = "subtasks"
  /\ ContinueSubtasks(subtasks,
                      Append(subtask_results,
                             ReadyRecord(subtasks[Len(subtask_results) + 1],
                                         OptimizerOutput)),
                      EndOptCall("done"))
  /\ UNCHANGED <<cfgVars, batchVars, evaluatorVars, synthVars, sessionVars, callVars, expired, perplexity_agent, taskVars>>

\* The Optimizer raises for the subtask in turn.
SubtaskRaises ==
  /\ pc = "subtasks"
  /\ IF SubtaskHandlerCatches(StageError)
       THEN ContinueSubtasks(subtasks,
                             Append(subtask_results,
                                    FailedRecord(subtasks[Len(subtask_results) + 1],
                                                 StageError)),
                             EndOptCall("raised"))
       ELSE Raise(StageError)
  /\ UNCHANGED <<cfgVars, batchVars, evaluatorVars, synthVars, sessionVars, callVars, expired, perplexity_agent, taskVars>>

\* ------------------------------------------------------ stage failures
\* A language-model call raises where no handler is in scope: the static
\* assessment, a Gap Analyzer round, the Consolidator, the Decomposer, or the
\* Optimizer on a manageable path.  enrich logs and re-raises.
StageRaises ==
  /\ pc \in {"static", "thinking", "consolidate", "scrum", "optimize"}
  /\ Raise(StageError)
  /\ atasks' = NoAgents
  /\ UNCHANGED <<cfgVars, batchVars, evaluatorVars, synthVars, sessionVars, callVars, expired, perplexity_agent, vtasks, semVars>>

\* -------------------------------------------------------------- deadline
Cancel(tasks) ==
  [x \in DOMAIN tasks |-> IF tasks[x] \in {"running", "waiting"} THEN "cancelled"
                          ELSE tasks[x]]

Running(tasks) == {x \in DOMAIN tasks : tasks[x] = "running"}

\* asyncio.timeout fires: CancelledError is thrown into the call at the await
\* it is suspended at; a gather in progress cancels its children, and a
\* cancelled task leaves the semaphore.  A handler in scope that catches the
\* exception resumes the call; otherwise asyncio.timeout turns it into
\* TimeoutError and enrich re-raises.
Expire ==
  /\ pc \notin {"idle", "done"}
  /\ ~expired
  /\ expired' = TRUE
  /\ atasks' = Cancel(atasks)
  /\ sem_value' = sem_value + Cardinality(Running(atasks))
  /\ sem_waiters' = <<>>
  /\ IF pc = "subtasks" /\ SubtaskHandlerCatches(CancelledError)
       THEN /\ ContinueSubtasks(subtasks,
                                Append(subtask_results,
                                       FailedRecord(subtasks[Len(subtask_results) + 1],
                                                    CancelledError)),
                                EndOptCall("cancelled"))
            /\ UNCHANGED vtasks
       ELSE IF pc \in {"validating", "synthesis"} /\ EvaluateHandlerCatches(CancelledError)
         THEN /\ AfterEvaluation(initial_assessment)
              /\ vtasks' = Cancel(vtasks)
         ELSE /\ Raise(TimeoutError)
              /\ vtasks' = Cancel(vtasks)
  /\ UNCHANGED <<cfgVars, batchVars, evaluatorVars, synthVars, sessionVars, callVars, perplexity_agent>>

\* ---------------------------------------------------------- specification
Next ==
  \/ Construct
  \/ call_tool
  \/ StaticAssessment
  \/ \E k \in CriterionNames : ValidationTaskDone(k)
  \/ ValidationJoin
  \/ Synthesis
  \/ SynthesisRaises
  \/ HermeneuticIteration
  \/ \E a \in AgentNames : AgentBatchDone(a)
  \/ DispatchJoin
  \/ ConsolidateDone
  \/ OptimizeDone
  \/ ScrumDone
  \/ SubtaskDone
  \/ SubtaskRaises
  \/ StageRaises
  \/ Expire

Spec == Init /\ [][Next]_vars

\* The deadline of enrich is finite: asyncio.timeout fires unless the call has
\* ended before.  Nothing is assumed of the collaborators but that an await
\* on them can be cancelled.
\* The orchestrator is built with every credential and one limiter slot, so
\* that the batches of a fan-out queue behind one another.
InitLive ==
  /\ env = Credentials
  /\ enable_perplexity \in BOOLEAN
  /\ constructed = "ok"
  /\ max_tokens_per_task = TokBound - 1
  /\ max_concurrency = 1
  /\ sem_value = 1
  /\ pc = "idle"
  /\ branch = "none"
  /\ current_context = NoContext
  /\ current_understanding = NoContext
  /\ FrameIdle
  /\ BatchIdle
  /\ EvaluatorIdle
  /\ SynthIdle
  /\ SessionIdle

NextLive ==
  \/ call_tool
  \/ StaticAssessment
  \/ \E k \in CriterionNames : ValidationTaskDone(k)
  \/ ValidationJoin
  \/ Synthesis
  \/ SynthesisRaises
  \/ HermeneuticIteration
  \/ \E a \in AgentNames : AgentBatchDone(a)
  \/ DispatchJoin
  \/ ConsolidateDone
  \/ OptimizeDone
  \/ ScrumDone
  \/ SubtaskDone
  \/ SubtaskRaises
  \/ StageRaises
  \/ Expire

SpecLive == InitLive /\ [][NextLive]_vars /\ WF_vars(Expire)

\* ------------------------------------------- a sub-agent's search(queries)
\* The four sub-agents share one loop: for each query, in order, a try around
\* the backend call that appends a success record, and an `except Exception`
\* that appends an error record.  SpecAgent follows one such call query by
\* query, with no enrich call in progress.
MaxQueries == 2        \* longest query list search is called with

QueryStrings == {"q1", "q2"}
QueryLists == UNION {[1..n -> QueryStrings] : n \in 0..MaxQueries}

\* What the backend call of one query does: it returns, or it raises.
BackendErrors == {StageError, TimeoutError, KeyError}
BackendOutcomes == {"ok"} \cup BackendErrors

\* A loop with no handler around the backend call.
QueryHandlerCatchesNothing(exc) == FALSE

\* `except Exception as e` inside the loop.
QueryHandlerCatches(exc) == exc # CancelledError

\* The record appended after the backend call returned.
SuccessRecord(a, query) ==
  IF a = "perplexity"
    THEN [query |-> query, result |-> "answer", citations |-> <<>>, source |-> a,
          success |-> TRUE]
    ELSE [query |-> query, result |-> "result", source |-> a, success |-> TRUE]

\* The record appended by the handler.
ErrorRecord(a, query, exc) ==
  [query |-> query, error |-> exc, source |-> a, success |-> FALSE]

\* A handler that logs the error and appends nothing.
OnQueryErrorLogOnly(rs, a, query, exc) == rs

\* The body of the handler: results.append({... "success": False}).
OnQueryError(rs, a, query, exc) == Append(rs, ErrorRecord(a, query, exc))

\* Every variable of the enrich call and of the server.
enrichVars == <<cfgVars, taskVars, callVars, perplexity_agent, pc, branch, expired,
                outcome, result, tool_response, current_context, evalData, gapVars,
                fanData, sizeVars, subtasks, subtask_results, scrum_calls, opt_calls>>
mainVars == <<enrichVars, evaluatorVars, synthVars, sessionVars>>

\* search(queries) has been called on one sub-agent; results == [].
InitAgent ==
  /\ env = Credentials
  /\ enable_perplexity = FALSE
  /\ constructed = "ok"
  /\ max_tokens_per_task = TokBound - 1
  /\ max_concurrency = 1
  /\ sem_value = 1
  /\ pc = "idle"
  /\ branch = "none"
  /\ current_context = NoContext
  /\ current_understanding = NoContext
  /\ FrameIdle
  /\ EvaluatorIdle
  /\ SynthIdle
  /\ SessionIdle
  /\ agent_name \in AgentNames
  /\ batch_queries \in QueryLists
  /\ batch_pending = batch_queries
  /\ batch_results = <<>>
  /\ search_pc = "searching"

\* One turn of `for query in queries`.
SearchQuery ==
  /\ search_pc = "searching"
  /\ batch_pending # <<>>
  /\ \E o \in BackendOutcomes :
       LET query == Head(batch_pending) IN
         IF o = "ok"
           THEN /\ batch_results' = Append(batch_results, SuccessRecord(agent_name, query))
                /\ batch_pending' = Tail(batch_pending)
                /\ UNCHANGED search_pc
           ELSE IF QueryHandlerCatches(o)
                  THEN /\ batch_results' = OnQueryError(batch_results, agent_name, query, o)
                       /\ batch_pending' = Tail(batch_pending)
                       /\ UNCHANGED search_pc
                  ELSE /\ search_pc' = "raised"
                       /\ batch_results' = <<>>
                       /\ batch_pending' = <<>>
  /\ UNCHANGED <<mainVars, agent_name, batch_queries>>

\* The task running search is cancelled while it awaits the backend:
\* CancelledError is not an Exception and leaves search.
SearchCancelled ==
  /\ search_pc = "searching"
  /\ batch_pending # <<>>
  /\ search_pc' = "cancelled"
  /\ batch_results' = <<>>
  /\ batch_pending' = <<>>
  /\ UNCHANGED <<mainVars, agent_name, batch_queries>>

\* The loop is over: return results.
SearchReturn ==
  /\ search_pc = "searching"
  /\ batch_pending = <<>>
  /\ search_pc' = "returned"
  /\ UNCHANGED <<mainVars, agent_name, batch_queries, batch_pending, batch_results>>

NextAgent ==
  \/ SearchQuery
  \/ SearchCancelled
  \/ SearchReturn

SpecAgent == InitAgent /\ [][NextAgent]_vars

\* ------------------------------------------- DeepThinkingAgent.execute
\* SpecGap follows one execute call of the Gap Analyzer round by round and
\* keeps what it returns: the rounds, the gaps and the crafted queries.

\* What the rest of the frame holds while execute runs.
gapFrame == <<cfgVars, batchVars, evaluatorVars, synthVars, sessionVars, callVars, taskVars, perplexity_agent, branch, expired,
              outcome, result, tool_response, current_context, evalData, fanData,
              sizeVars, subtasks, subtask_results, scrum_calls, opt_calls>>

\* execute has been called: iterations == [], current_understanding is the
\* context it was given, and the first round's chat_completion is in flight.
InitGap ==
  /\ env = Credentials
  /\ enable_perplexity = FALSE
  /\ constructed = "ok"
  /\ max_tokens_per_task = TokBound - 1
  /\ max_concurrency = 1
  /\ sem_value = 1
  /\ pc = "thinking"
  /\ branch = "none"
  /\ current_context \in SessionContexts
  /\ current_understanding = current_context
  /\ FrameIdle
  /\ BatchIdle
  /\ EvaluatorIdle
  /\ SynthIdle
  /\ SessionIdle

\* The chat_completion of one round returns: the round's result is appended
\* and the understanding refined; after the last round the gaps are
\* synthesized, the queries crafted and execute returns.
DeepThinkingRound ==
  /\ pc = "thinking"
  /\ \E response \in IterationResponses :
       LET round == _hermeneutic_iteration(response, current_understanding)
           gaps == all_gaps \cup IterationGaps(round)
       IN
       /\ chat_completions' = chat_completions + 1
       /\ iterations' = iterations + 1
       /\ iteration_result' = round
       /\ all_gaps' = gaps
       /\ current_understanding' = RefinedOr(round, current_understanding)
       /\ IF iterations + 1 < max_iterations
            THEN UNCHANGED <<pc, search_queries>>
            ELSE /\ pc' = "thought"
                 /\ search_queries' = _craft_search_queries(gaps)
  /\ UNCHANGED gapFrame

\* The chat_completion of a round raises: nothing in execute catches it.
DeepThinkingRaises ==
  /\ pc = "thinking"
  /\ pc' = "raised"
  /\ UNCHANGED <<gapFrame, gapVars>>

NextGap ==
  \/ DeepThinkingRound
  \/ DeepThinkingRaises

SpecGap == InitGap /\ [][NextGap]_vars

\* ------------------------------------------------- ScrumAgent.execute
\* SpecScrum follows one Decomposer call on the scrum path up to the list
\* handed to _execute_subtasks, with the planning fields of the subtasks:
\* dependencies and execution_order.
PlannedSubtasks ==
  [id : SubtaskIds, context : {[origin |-> "subtask", tokens |-> 1]},
   dependencies : SUBSET SubtaskIds, execution_order : {1, 2}]

PlannedLists == UNION {[1..n -> PlannedSubtasks] : n \in 0..MaxSubtasks}

PlanResponses ==
  [kind : {"malformed"}]
  \cup [kind : {"object"}]
  \cup [kind : {"object"}, subtasks : PlannedLists]

\* What the rest of the frame holds while the Decomposer and the hand-over run.
scrumFrame == <<cfgVars, batchVars, evaluatorVars, synthVars, sessionVars, callVars, taskVars, perplexity_agent, branch, expired,
                outcome, result, tool_response, current_context, evalData, gapVars,
                fanData, sizeVars, subtask_results, opt_calls>>

\* The sufficient context was over the token limit: scrum_agent.execute has
\* been called on it.
InitScrum ==
  /\ env = Credentials
  /\ enable_perplexity = FALSE
  /\ constructed = "ok"
  /\ max_tokens_per_task = TokBound - 1
  /\ max_concurrency = 1
  /\ sem_value = 1
  /\ pc = "idle"
  /\ branch = "none"
  /\ current_context \in SessionContexts
  /\ current_understanding = NoContext
  /\ FrameIdle
  /\ BatchIdle
  /\ EvaluatorIdle
  /\ SynthIdle
  /\ SessionIdle

\* _enrich_internal calls the Decomposer on the context.
ScrumCall ==
  /\ pc = "idle"
  /\ pc' = "scrum"
  /\ scrum_calls' = Append(scrum_calls, current_context)
  /\ UNCHANGED <<scrumFrame, subtasks>>

\* The Decomposer returns: breakdown["subtasks"] is handed to
\* _execute_subtasks as it is, or its absence raises KeyError.
ScrumReturns ==
  /\ pc = "scrum"
  /\ \E response \in PlanResponses :
       LET breakdown == Breakdown(response, scrum_calls[Len(scrum_calls)]) IN
       IF "subtasks" \notin DOMAIN breakdown
         THEN /\ pc' = "raised"
              /\ UNCHANGED subtasks
         ELSE /\ pc' = "subtasks"
              /\ subtasks' = breakdown.subtasks
  /\ UNCHANGED <<scrumFrame, scrum_calls>>

NextScrum ==
  \/ ScrumCall
  \/ ScrumReturns

SpecScrum == InitScrum /\ [][NextScrum]_vars

\* ----------------------------------------------- OptimizerAgent.execute
\* SpecOptimizer follows one Optimizer call, on the whole context or on a
\* subtask, with the payload it returns: the keys of optimized_context in
\* the order of the JSON object, and the token_count record if there is one.
Zones == <<"zone_1_task", "zone_2_core", "zone_3_supporting", "zone_4_gotchas">>
ZoneNames == {Zones[i] : i \in 1..Len(Zones)}

\* The key orders a JSON object over the zone names can have.
ZoneLists ==
  UNION {{z \in [1..n -> ZoneNames] : \A i, j \in 1..n : z[i] = z[j] => i = j} :
           n \in 0..Len(Zones)}

OptimizerResponses ==
  [kind : {"malformed"}]
  \cup [kind : {"object"}]
  \cup [kind : {"object"}, optimized_context : ZoneLists]
  \cup [kind : {"object"}, optimized_context : ZoneLists,
        token_count : {[original |-> 1, optimized |-> 1]}]

\* OptimizerAgent.execute: the parsed response, or the four-zone fallback.
Optimized(response) ==
  IF response.kind = "malformed"
    THEN [kind |-> "fallback", optimized_context |-> Zones,
          token_count |-> [original |-> 0, optimized |-> 0]]
    ELSE response

\* What the rest of the frame holds while the Optimizer runs.
optimizerFrame == <<cfgVars, batchVars, evaluatorVars, synthVars, sessionVars, callVars, taskVars, perplexity_agent, branch,
                    expired, tool_response, current_context, evalData, gapVars,
                    fanData, sizeVars, subtasks, scrum_calls>>

\* An Optimizer call is in flight: on the whole context of a manageable
\* path, or on the only subtask of a scrum path.
InitOptimizer ==
  /\ env = Credentials
  /\ enable_perplexity = FALSE
  /\ constructed = "ok"
  /\ max_tokens_per_task = TokBound - 1
  /\ max_concurrency = 1
  /\ sem_value = 1
  /\ branch \in {"sufficient", "enriched"}
  /\ current_context \in SessionContexts
  /\ current_understanding = NoContext
  /\ sem_waiters = <<>>
  /\ perplexity_agent = "None"
  /\ expired = FALSE
  /\ outcome = "none"
  /\ result = NoResult
  /\ initial_assessment = NoAssessment
  /\ evaluation = NoAssessment
  /\ perplexity_validations = EmptyDict
  /\ synthesis_response = NoReply
  /\ vtasks = NoTasks
  /\ iterations = 0
  /\ all_gaps = {}
  /\ iteration_result = NoIteration
  /\ chat_completions = 0
  /\ search_queries = NoQueries
  /\ atasks = NoAgents
  /\ completed = NothingCompleted
  /\ sub_agent_results = EmptyDict
  /\ enriched_context = NoContext
  /\ estimated_tokens = 0
  /\ consolidation = NoConsolidation
  /\ subtask_results = <<>>
  /\ name = "none"
  /\ arguments = NoArguments
  /\ tool_response = NoResponse
  /\ BatchIdle
  /\ EvaluatorIdle
  /\ SynthIdle
  /\ clock = 1
  /\ session_ids = [c \in Calls |-> IF c = 1 THEN strftime(clock) ELSE NoSession]
  /\ session_pc = [c \in Calls |-> IF c = 1 THEN "extracted" ELSE "idle"]
  /\ prompt_store = write_text(EmptyDict, ContextFile(strftime(clock)), 1)
  /\ optimized_folder = EmptyDict
  /\ \E whole \in BOOLEAN :
       IF whole
         THEN /\ pc = "optimize"
              /\ subtasks = <<>>
              /\ scrum_calls = <<>>
              /\ opt_calls = <<OptCall("whole", current_context, session_ids[1])>>
         ELSE /\ pc = "subtasks"
              /\ subtasks = <<LlmSubtask(1)>>
              /\ scrum_calls = <<current_context>>
              /\ opt_calls = <<OptCall(1, LlmSubtask(1).context,
                                       SubtaskSession(session_ids[1], 1))>>

\* The Optimizer returns on a manageable path: its payload is returned as
\* optimized_context with status ready_for_execution.
OptimizerReturnsWhole ==
  /\ pc = "optimize"
  /\ \E response \in OptimizerResponses :
       /\ result' = ReadyResult(branch, Optimized(response))
       /\ subtask_results' = <<>>
  /\ opt_calls' = EndOptCall("done")
  /\ pc' = "done"
  /\ outcome' = "result"
  /\ UNCHANGED optimizerFrame

\* The Optimizer returns for the subtask: its payload is stored in the
\* subtask's record with status ready_for_execution, and the records returned.
OptimizerReturnsSubtask ==
  /\ pc = "subtasks"
  /\ \E response \in OptimizerResponses :
       /\ subtask_results' = <<ReadyRecord(subtasks[1], Optimized(response))>>
       /\ result' = SubtasksResult(branch,
                                   <<ReadyRecord(subtasks[1], Optimized(response))>>)
  /\ opt_calls' = EndOptCall("done")
  /\ pc' = "done"
  /\ outcome' = "result"
  /\ UNCHANGED optimizerFrame

NextOptimizer ==
  \/ OptimizerReturnsWhole
  \/ OptimizerReturnsSubtask

SpecOptimizer == InitOptimizer /\ [][NextOptimizer]_vars

\* ------------------------------------ EvaluatorAgent._validate_with_perplexity
\* SpecSelect follows the validation fan-out of one evaluate call from the
\* inputs its selection reads: the static verdict, the lines of the session
\* context and the text of intent and prompt.  A line and a text are the sets
\* of lower-case words they contain.
TechnicalKeywords ==
  {"version", "API", "library", "framework", "method", "function", "uses", "requires"}

\* any(keyword in line.lower() for keyword in keywords)
IsTechnical(line) == line \cap TechnicalKeywords # {}

\* seq[:n]
Prefix(seq, n) == SubSeq(seq, 1, IF Len(seq) < n THEN Len(seq) ELSE n)

\* EvaluatorAgent._extract_technical_claims
_extract_technical_claims(ctx) == Prefix(SelectSeq(ctx, IsTechnical), 5)

\* The domains of _extract_domain in the order of its dict.
DomainOrder == <<"web", "ai/ml", "devops", "database", "backend">>
DomainKeywords ==
  [d \in {DomainOrder[i] : i \in 1..Len(DomainOrder)} |->
     CASE d = "web" -> {"react", "javascript", "html", "css", "frontend", "web"}
       [] d = "ai/ml" -> {"ai", "machine learning", "llm", "model", "training", "neural"}
       [] d = "devops" -> {"docker", "kubernetes", "deployment", "ci/cd", "infrastructure"}
       [] d = "database" -> {"sql", "database", "postgresql", "mongodb", "redis"}
       [] d = "backend" -> {"api", "server", "backend", "microservice"}]

\* EvaluatorAgent._extract_domain: the first domain with a keyword in the text.
_extract_domain(text) ==
  LET hits == {i \in 1..Len(DomainOrder) : DomainKeywords[DomainOrder[i]] \cap text # {}}
  IN IF hits = {} THEN "None"
     ELSE DomainOrder[CHOOSE i \in hits : \A j \in hits : i <= j]

\* The session contexts and texts the selection is followed on.
SelectContexts == {<<>>, <<{"plain"}>>, <<{"uses", "v2"}>>, <<{"api"}>>}
SelectTexts == {{}, {"fix", "react"}, {"fix", "server"}}

\* The static verdicts: the fields the selection reads may each be absent.
SelectVerdicts ==
  LET base == [sufficient : {FALSE}, confidence : {DefaultConfidence}, reasoning : {"llm"}]
      missing == {<<>>, <<"gap">>}
      levels == {"medium", "high", "expert"}
  IN base
     \cup [sufficient : {FALSE}, confidence : {DefaultConfidence}, reasoning : {"llm"},
           missing_elements : missing]
     \cup [sufficient : {FALSE}, confidence : {DefaultConfidence}, reasoning : {"llm"},
           missing_areas : {<<"gap">>}]
     \cup [sufficient : {FALSE}, confidence : {DefaultConfidence}, reasoning : {"llm"},
           complexity : levels]
     \cup [sufficient : {FALSE}, confidence : {DefaultConfidence}, reasoning : {"llm"},
           missing_elements : missing, complexity : levels]

\* d.get(key, default)
Get(d, key, default) == IF key \in DOMAIN d THEN d[key] ELSE default

\* A selection that starts every validation whatever the inputs.
SelectedConditionsAll(ia, ctx, text) == ConditionalCriteria

\* The conditional criteria _validate_with_perplexity appends a task for.
SelectedConditions(ia, ctx, text) ==
  {k \in ConditionalCriteria :
     CASE k = "completeness" ->
            Get(ia, "missing_elements", <<>>) # <<>> \/ Get(ia, "missing_areas", <<>>) # <<>>
       [] k = "accuracy" -> _extract_technical_claims(ctx) # <<>>
       [] k = "relevance" -> _extract_domain(text) # "None"
       [] k = "depth" -> Get(ia, "complexity", "medium") \in {"high", "expert"}}

\* What the rest of the frame holds during the fan-out.
selectFrame == <<cfgVars, batchVars, callVars, atasks, semVars, branch, expired, outcome,
                 result, tool_response, current_context, evaluation, gapVars, fanData,
                 sizeVars, subtasks, subtask_results, scrum_calls, opt_calls,
                 validation_cache, technical_claims, claim_index, validations,
                 accuracy_pc, research_calls, synthVars, sessionVars>>

\* evaluate has been called with validation enabled; the static assessment's
\* call is in flight.
InitSelect ==
  /\ env = Credentials
  /\ enable_perplexity = TRUE
  /\ constructed = "ok"
  /\ max_tokens_per_task = TokBound - 1
  /\ max_concurrency = 1
  /\ sem_value = 1
  /\ pc = "static"
  /\ branch = "none"
  /\ current_context = NoContext
  /\ current_understanding = NoContext
  /\ FrameIdle
  /\ BatchIdle
  /\ SynthIdle
  /\ SessionIdle
  /\ session_context \in SelectContexts
  /\ prompt_text \in SelectTexts
  /\ validation_cache = EmptyDict
  /\ technical_claims = [e \in Evaluations |-> <<>>]
  /\ claim_index = [e \in Evaluations |-> 0]
  /\ validations = [e \in Evaluations |-> <<>>]
  /\ accuracy_pc = [e \in Evaluations |-> "idle"]
  /\ research_calls = [e \in Evaluations |-> <<>>]

\* The static assessment returns and _validate_with_perplexity starts the
\* selected validations together.
SelectValidations ==
  /\ pc = "static"
  /\ \E ia \in SelectVerdicts :
       /\ initial_assessment' = ia
       /\ vtasks' = [k \in CriterionNames |->
                       IF k \in SelectedCriteria(SelectedConditions(ia, session_context,
                                                                    prompt_text))
                         THEN "running" ELSE "none"]
  /\ perplexity_agent' = _init_perplexity(perplexity_agent)
  /\ pc' = "validating"
  /\ UNCHANGED <<selectFrame, session_context, prompt_text, perplexity_validations,
                 synthesis_response>>

NextSelect ==
  \/ SelectValidations
  \/ \E k \in CriterionNames : ValidationTaskDone(k)
  \/ ValidationJoin

SpecSelect == InitSelect /\ [][NextSelect]_vars

\* ------------------------------------------ EvaluatorAgent._validate_accuracy
\* SpecCache follows the accuracy validations of two evaluate calls on one
\* Evaluator.  Between two awaits a coroutine runs alone, so one action takes
\* a loop from one await of perplexity_agent.search to the next, or to the
\* return.
MaxClaims == 4         \* longest list of technical claims an evaluation is given

\* The claims: stripped lines of a context, each holding a technical keyword.
ClaimOrder == <<{"uses", "v2"}, {"requires", "v3"}, {"version", "v4"}, {"import", "v5"}>>
ClaimLines == {ClaimOrder[i] : i \in 1..Len(ClaimOrder)}
\* The lists followed: distinct claims in any order, and a claim given twice.
ClaimLists ==
  {l \in UNION {[1..n -> ClaimLines] : n \in 0..MaxClaims} :
     \A i, j \in 1..Len(l) : l[i] = l[j] => i = j}
  \cup {<<c, c>> : c \in ClaimLines}

\* hash(claim): an integer per text, distinct for the texts followed here.
hash(claim) == CHOOSE i \in 1..Len(ClaimOrder) : ClaimOrder[i] = claim

\* f"accuracy_{hash(claim)}"
cache_key(claim) == <<"accuracy", hash(claim)>>

\* The validation record built from the answer of evaluation e's search.
Validation(claim, e) == [criterion |-> "accuracy", claim |-> claim, by |-> e]

\* A write into a cache that holds one entry.
CacheWriteEvicting(cache, key, validation) == [k \in {key} |-> validation]

\* A write that keeps the entry already stored under the key.
CacheWriteIfAbsent(cache, key, validation) ==
  [k \in DOMAIN cache \cup {key} |-> IF k \in DOMAIN cache THEN cache[k] ELSE validation]

\* self.validation_cache[cache_key] = validation
CacheWrite(cache, key, validation) ==
  [k \in DOMAIN cache \cup {key} |-> IF k = key THEN validation ELSE cache[k]]

\* technical_claims[:3]
AccuracyClaims(claims) == Prefix(claims, 3)

\* A loop that never reads the cache.
CacheHitNever(cache, key) == FALSE

\* cache_key in self.validation_cache
CacheHit(cache, key) == key \in DOMAIN cache

\* The loop of _validate_accuracy from position i, with the list vals built
\* so far: cached validations are appended until a claim misses the cache,
\* where the search is awaited, or until the claims are exhausted.
RECURSIVE AccuracyLoop(_, _, _, _)
AccuracyLoop(claims, i, vals, cache) ==
  IF i > Len(AccuracyClaims(claims))
    THEN [pc |-> "returned", index |-> i, validations |-> vals]
    ELSE IF CacheHit(cache, cache_key(claims[i]))
           THEN AccuracyLoop(claims, i + 1, Append(vals, cache[cache_key(claims[i])]),
                             cache)
           ELSE [pc |-> "searching", index |-> i, validations |-> vals]

\* Evaluation e's loop has reached `at`; a search awaited is a research call.
Advance(e, claims, at) ==
  /\ technical_claims' = [technical_claims EXCEPT ![e] = claims]
  /\ accuracy_pc' = [accuracy_pc EXCEPT ![e] = at.pc]
  /\ claim_index' = [claim_index EXCEPT ![e] = at.index]
  /\ validations' = [validations EXCEPT ![e] = at.validations]
  /\ research_calls' = [research_calls EXCEPT ![e] =
                          IF at.pc = "searching" THEN Append(@, claims[at.index]) ELSE @]

\* What the enrich calls hold meanwhile.
cacheFrame == <<enrichVars, batchVars, synthVars, sessionVars, session_context,
               prompt_text>>

\* No evaluation has run on the Evaluator.
InitCache ==
  /\ env = Credentials
  /\ enable_perplexity = TRUE
  /\ constructed = "ok"
  /\ max_tokens_per_task = TokBound - 1
  /\ max_concurrency = 1
  /\ sem_value = 1
  /\ pc = "idle"
  /\ branch = "none"
  /\ current_context = NoContext
  /\ current_understanding = NoContext
  /\ FrameIdle
  /\ BatchIdle
  /\ EvaluatorIdle
  /\ SynthIdle
  /\ SessionIdle

\* _validate_accuracy is called in evaluation e with the claims extracted
\* from its context.
StartAccuracy(e) ==
  /\ accuracy_pc[e] = "idle"
  /\ \E claims \in ClaimLists :
       Advance(e, claims, AccuracyLoop(claims, 1, <<>>, validation_cache))
  /\ UNCHANGED <<cacheFrame, validation_cache>>

\* The search of evaluation e returns: the validation is stored in the cache
\* and appended, and the loop goes on.
SearchReturns(e) ==
  /\ accuracy_pc[e] = "searching"
  /\ LET claim == technical_claims[e][claim_index[e]]
         validation == Validation(claim, e)
         cache == CacheWrite(validation_cache, cache_key(claim), validation)
     IN /\ validation_cache' = cache
        /\ Advance(e, technical_claims[e],
                   AccuracyLoop(technical_claims[e], claim_index[e] + 1,
                                Append(validations[e], validation), cache))
  /\ UNCHANGED cacheFrame

\* A failed search cached as a validation of its claim.
SearchFailedCachesClaim(cache, claim, e) ==
  CacheWrite(cache, cache_key(claim), Validation(claim, e))

\* `await self.perplexity_agent.search(query)` raises: the statements after
\* it, the cache assignment among them, are not executed.
SearchFailed(cache, claim, e) == cache

\* results[name] = [] for a criterion whose task ended with an exception
FailedCriterion(vals) == <<>>

\* The search of evaluation e raises: _validate_accuracy raises with it and
\* its list is lost; what it stored in the cache stays.
SearchRaises(e) ==
  /\ accuracy_pc[e] = "searching"
  /\ accuracy_pc' = [accuracy_pc EXCEPT ![e] = "raised"]
  /\ validations' = [validations EXCEPT ![e] = FailedCriterion(@)]
  /\ validation_cache' =
       SearchFailed(validation_cache, technical_claims[e][claim_index[e]], e)
  /\ UNCHANGED <<cacheFrame, technical_claims, claim_index, research_calls>>

NextCache ==
  \/ \E e \in Evaluations : StartAccuracy(e)
  \/ \E e \in Evaluations : SearchReturns(e)
  \/ \E e \in Evaluations : SearchRaises(e)

SpecCache == InitCache /\ [][NextCache]_vars

\* ------------------- DeepThinkingAgent._synthesize_gaps, _craft_search_queries
\* SpecSynth follows two runs of the gap synthesis and of the query crafting
\* on the same iterations list, each run in a server process of its own.
MaxGaps == 1           \* longest gaps_identified list of a round

\* The gap texts followed, each the set of its words.
GapOrder == <<{"Must", "should", "API"}, {"should", "how"}, {"what", "documentation"},
             {"required", "what"}>>
GapTexts == {GapOrder[i] : i \in 1..Len(GapOrder)}
\* The lists a round reports: distinct texts in any order; a text is
\* reported again by a later round.
GapLists ==
  {l \in UNION {[1..n -> GapTexts] : n \in 0..MaxGaps} :
     \A i, j \in 1..Len(l) : l[i] = l[j] => i = j}

\* The iterations list: max_iterations round results, with or without the
\* key gaps_identified.
RoundResults == [kind : {"object"}] \cup [kind : {"object"}, gaps_identified : GapLists]
IterationLists == [1..max_iterations -> RoundResults]

\* str.lower() on the words followed
LowerWord(w) == IF w = "Must" THEN "must" ELSE IF w = "API" THEN "api" ELSE w
lower(g) == {LowerWord(w) : w \in g}

\* any(word in g.lower() for word in keywords)
AnyIn(keywords, g) == lower(g) \cap keywords # {}

\* all_gaps.extend(iteration.get("gaps_identified", [])) over the iterations
RECURSIVE ExtendAll(_)
ExtendAll(iters) ==
  IF iters = <<>> THEN <<>>
  ELSE ExtendAll(SubSeq(iters, 1, Len(iters) - 1))
         \o Get(iters[Len(iters)], "gaps_identified", <<>>)

\* The string hash seeds of two processes.
Seeds == {1, 2}

\* Position of a text in the iteration order of a set under a hash seed.
Slot(seed, g) ==
  LET rank == CHOOSE i \in 1..Len(GapOrder) : GapOrder[i] = g
  IN IF seed = 1 THEN rank ELSE Len(GapOrder) + 1 - rank

\* list(all_gaps): every text as often as it was reported
ListOfAll(seed, all) == all

\* list(set(all_gaps)): the distinct texts, in the iteration order of the set
ListOfSet(seed, all) ==
  LET distinct == {all[i] : i \in 1..Len(all)}
  IN CHOOSE l \in [1..Cardinality(distinct) -> distinct] :
       \A i, j \in 1..Cardinality(distinct) :
         i < j => Slot(seed, l[i]) < Slot(seed, l[j])

InList(g, l) == \E i \in 1..Len(l) : l[i] = g

\* The three list comprehensions of _synthesize_gaps
Classify(unique_gaps) ==
  LET crit == SelectSeq(unique_gaps, LAMBDA g : AnyIn(CriticalWords, g))
      imp == SelectSeq(unique_gaps,
                       LAMBDA g : ~InList(g, crit) /\ AnyIn(ImportantWords, g))
  IN [kind |-> "gaps", critical |-> crit, important |-> imp,
      supplementary |-> SelectSeq(unique_gaps,
                                  LAMBDA g : ~InList(g, crit) /\ ~InList(g, imp))]

_synthesize_gaps(iters, seed) == Classify(ListOfSet(seed, ExtendAll(iters)))

\* context.get("task", "")
TaskText == "task"

\* The gaps a crafting loop over all three lists runs through.
RoutedGapsAll(classes) == classes.critical \o classes.important \o classes.supplementary

\* gaps.get("critical", []) + gaps.get("important", [])
RoutedGaps(classes) == classes.critical \o classes.important

\* The loop of _craft_search_queries; a research query is f"{task}: {gap}".
CraftedQueries(classes, task) ==
  LET routed == RoutedGaps(classes) IN
  [kind |-> "queries",
   perplexity |-> [i \in 1..Len(routed) |-> <<task, routed[i]>>],
   cognee_vector |-> routed,
   cognee_kg |-> SelectSeq(routed, LAMBDA g : AnyIn({"how", "what"}, g)),
   file_search |-> SelectSeq(routed, LAMBDA g : AnyIn({"documentation", "api"}, g))]

synthFrame == <<enrichVars, batchVars, evaluatorVars, sessionVars>>

\* Two processes are given the same iterations list.
InitSynth ==
  /\ env = Credentials
  /\ enable_perplexity = TRUE
  /\ constructed = "ok"
  /\ max_tokens_per_task = TokBound - 1
  /\ max_concurrency = 1
  /\ sem_value = 1
  /\ pc = "idle"
  /\ branch = "none"
  /\ current_context = NoContext
  /\ current_understanding = NoContext
  /\ FrameIdle
  /\ BatchIdle
  /\ EvaluatorIdle
  /\ SessionIdle
  /\ round_outputs \in IterationLists
  /\ hash_seed \in [Runs -> Seeds]
  /\ synthesized = [r \in Runs |-> NoGaps]
  /\ crafted = [r \in Runs |-> NoQuerySet]

\* final_gaps = await self._synthesize_gaps(iterations) in run r
SynthesizeGaps(r) ==
  /\ synthesized[r] = NoGaps
  /\ synthesized' = [synthesized EXCEPT ![r] = _synthesize_gaps(round_outputs, hash_seed[r])]
  /\ UNCHANGED <<synthFrame, round_outputs, hash_seed, crafted>>

\* search_queries = await self._craft_search_queries(final_gaps, context) in run r
CraftSearchQueries(r) ==
  /\ synthesized[r] # NoGaps
  /\ crafted[r] = NoQuerySet
  /\ crafted' = [crafted EXCEPT ![r] = CraftedQueries(synthesized[r], TaskText)]
  /\ UNCHANGED <<synthFrame, round_outputs, hash_seed, synthesized>>

NextSynth ==
  \/ \E r \in Runs : SynthesizeGaps(r)
  \/ \E r \in Runs : CraftSearchQueries(r)

SpecSynth == InitSynth /\ [][NextSynth]_vars

\* -------------------------------------------------------------- sessions
\* Two enrich calls on one orchestrator, neither given a session id (call_tool
\* never passes one): the context file each call writes and the files the
\* Optimizer saves for it, against the clock their names are taken from.
MaxTicks == 3

sessionFrame == <<enrichVars, batchVars, evaluatorVars, synthVars>>

InitSession ==
  /\ env = Credentials
  /\ enable_perplexity = TRUE
  /\ constructed = "ok"
  /\ max_tokens_per_task = TokBound - 1
  /\ max_concurrency = 1
  /\ sem_value = 1
  /\ pc = "idle"
  /\ branch = "none"
  /\ current_context = NoContext
  /\ current_understanding = NoContext
  /\ FrameIdle
  /\ BatchIdle
  /\ EvaluatorIdle
  /\ SynthIdle
  /\ SessionIdle

\* Time passes between two steps of the calls.
Tick ==
  /\ clock < MaxTicks
  /\ clock' = clock + 1
  /\ UNCHANGED <<session_ids, session_pc, prompt_store, optimized_folder, sessionFrame>>

\* ContextExtractorAgent.execute of call c: the id is minted from the clock and
\* the context file written under it.
Extract(c) ==
  /\ session_pc[c] = "idle"
  /\ session_ids' = [session_ids EXCEPT ![c] = strftime(clock)]
  /\ prompt_store' = write_text(prompt_store, ContextFile(strftime(clock)), c)
  /\ session_pc' = [session_pc EXCEPT ![c] = "extracted"]
  /\ UNCHANGED <<clock, optimized_folder, sessionFrame>>

\* _save_optimized_context of the one Optimizer call of a manageable path.
SaveOptimized(c) ==
  /\ session_pc[c] = "extracted"
  /\ optimized_folder' =
       write_text(optimized_folder, OptimizedFile(session_ids[c], strftime(clock)), c)
  /\ session_pc' = [session_pc EXCEPT ![c] = "returned"]
  /\ UNCHANGED <<clock, session_ids, prompt_store, sessionFrame>>

\* _save_optimized_context of a subtask's Optimizer call; the language model
\* chose the subtask's id.
SaveSubtask(c) ==
  /\ session_pc[c] \in {"extracted", "subtasks"}
  /\ \E id \in 1..MaxSubtasks :
       optimized_folder' =
         write_text(optimized_folder,
                    OptimizedFile(SubtaskSession(session_ids[c], id), strftime(clock)), c)
  /\ session_pc' = [session_pc EXCEPT ![c] = "subtasks"]
  /\ UNCHANGED <<clock, session_ids, prompt_store, sessionFrame>>

\* The call ends: after its subtasks, or with a failure before any save.
ReturnSession(c) ==
  /\ session_pc[c] \in {"extracted", "subtasks"}
  /\ session_pc' = [session_pc EXCEPT ![c] = "returned"]
  /\ UNCHANGED <<clock, session_ids, prompt_store, optimized_folder, sessionFrame>>

NextSession ==
  \/ Tick
  \/ \E c \in Calls : Extract(c)
  \/ \E c \in Calls : SaveOptimized(c)
  \/ \E c \in Calls : SaveSubtask(c)
  \/ \E c \in Calls : ReturnSession(c)

SpecSession == InitSession /\ [][NextSession]_vars

\* ------------------------------------------------------------ properties
\* C1: when the final verdict is sufficient, the call that returns a result
\* has run the Optimizer exactly once, on the extracted context, with path
\* sufficient_manageable, when the token count of that context is at most
\* max_tokens_per_task (equality included); otherwise it has run the
\* Decomposer on that context and then processed every subtask, with one
\* Optimizer call per subtask that carries a context, and the path is
\* sufficient_too_large_scrum.
C1_SufficientBranch ==
  (outcome = "result" /\ evaluation.sufficient) =>
    IF count_tokens(current_context) <= max_tokens_per_task
      THEN /\ result.path = "sufficient_manageable"
           /\ scrum_calls = <<>>
           /\ opt_calls = <<[target |-> "whole", context |-> current_context,
                             session_id |-> session_ids[1], state |-> "done"]>>
      ELSE /\ result.path = "sufficient_too_large_scrum"
           /\ scrum_calls = <<current_context>>
           /\ Len(result.subtask_results) = Len(subtasks)
           /\ LET optimizable == SelectSeq(subtasks, LAMBDA t : "context" \in DOMAIN t) IN
              /\ Len(opt_calls) = Len(optimizable)
              /\ \A i \in 1..Len(opt_calls) :
                   /\ opt_calls[i].target = optimizable[i].id
                   /\ opt_calls[i].context = optimizable[i].context
                   /\ opt_calls[i].state \in {"done", "raised"}

\* A sufficient context of exactly max_tokens_per_task tokens was returned
\* on the manageable path.
C1_Witness ==
  /\ outcome = "result"
  /\ evaluation.sufficient
  /\ count_tokens(current_context) = max_tokens_per_task
  /\ result.path = "sufficient_manageable"

\* C2: when the final verdict is insufficient, the call that returns a result
\* took its size gate on the consolidation's estimated tokens: at most
\* max_tokens_per_task, the Optimizer ran once on the enriched context and the
\* path is enriched_manageable; above it, the Decomposer ran on the enriched
\* context, every subtask was processed, with one Optimizer call per subtask
\* that carries a context, and the path is enriched_too_large_scrum.
C2_EnrichedBranch ==
  (outcome = "result" /\ ~evaluation.sufficient) =>
    IF estimated_tokens <= max_tokens_per_task
      THEN /\ result.path = "enriched_manageable"
           /\ scrum_calls = <<>>
           /\ opt_calls = <<[target |-> "whole", context |-> enriched_context,
                             session_id |-> session_ids[1], state |-> "done"]>>
      ELSE /\ result.path = "enriched_too_large_scrum"
           /\ scrum_calls = <<enriched_context>>
           /\ Len(result.subtask_results) = Len(subtasks)
           /\ LET optimizable == SelectSeq(subtasks, LAMBDA t : "context" \in DOMAIN t) IN
              /\ Len(opt_calls) = Len(optimizable)
              /\ \A i \in 1..Len(opt_calls) :
                   /\ opt_calls[i].target = optimizable[i].id
                   /\ opt_calls[i].context = optimizable[i].context
                   /\ opt_calls[i].state \in {"done", "raised"}

\* An enriched context estimated at exactly max_tokens_per_task tokens was
\* returned on the manageable path.
C2_Witness ==
  /\ outcome = "result"
  /\ ~evaluation.sufficient
  /\ enriched_context.origin = "llm"
  /\ estimated_tokens = max_tokens_per_task
  /\ result.path = "enriched_manageable"

\* C3: a returned result has status ready_for_execution and a single
\* optimized context exactly when its path is one of the two *_manageable
\* paths, and status subtasks_completed and a list of per-subtask records
\* exactly when its path is one of the two *_too_large_scrum paths; no other
\* status or path is returned.
C3_ResultShape ==
  outcome = "result" =>
    \/ /\ result.status = "ready_for_execution"
       /\ result.path \in {"sufficient_manageable", "enriched_manageable"}
       /\ DOMAIN result = {"status", "path", "optimized_context"}
    \/ /\ result.status = "subtasks_completed"
       /\ result.path \in {"sufficient_too_large_scrum", "enriched_too_large_scrum"}
       /\ DOMAIN result = {"status", "path", "subtask_results"}
       /\ Len(result.subtask_results) = Len(subtasks)
       /\ \A i \in 1..Len(subtasks) :
            result.subtask_results[i].subtask_id = subtasks[i].id

\* A scrum path returned its list of subtask records.
C3_Witness ==
  /\ outcome = "result"
  /\ result.status = "subtasks_completed"
  /\ result.path = "enriched_too_large_scrum"
  /\ Len(result.subtask_results) = MaxSubtasks

\* C4 (as stated): no enrich call returns a result without a completed
\* Optimizer call having preceded the return, and nothing is marked
\* ready_for_execution unless it is the output of an Optimizer call of the
\* same enrich call.
C4_CompletedOptimizerBeforeReturn ==
  outcome = "result" =>
    /\ \E i \in 1..Len(opt_calls) : opt_calls[i].state = "done"
    /\ result.status = "ready_for_execution" =>
         /\ result.optimized_context.call \in 1..Len(opt_calls)
         /\ opt_calls[result.optimized_context.call].state = "done"

\* C4 (amended): nothing is marked ready_for_execution, neither the result
\* nor a subtask record, unless it holds the output of an Optimizer call of
\* this enrich call that completed, the one issued for that context.  A
\* result on a manageable path follows exactly one completed Optimizer call,
\* on the whole context; a result on a scrum path follows Optimizer calls that
\* have all ended, and holds failure records for the subtasks without one
\* that completed, so it may follow no completed Optimizer call at all.
C4_ReadyOnlyFromOptimizer ==
  /\ outcome = "result" =>
       /\ result.status = "ready_for_execution" =>
            /\ Len(opt_calls) = 1
            /\ "optimized_context" \in DOMAIN result
            /\ result.optimized_context.call = 1
            /\ opt_calls[1].state = "done"
            /\ opt_calls[1].target = "whole"
       /\ result.status = "subtasks_completed" =>
            /\ \A i \in 1..Len(opt_calls) : opt_calls[i].state \in {"done", "raised"}
            /\ \A i \in 1..Len(result.subtask_results) :
                 result.subtask_results[i].status \in {"ready_for_execution", "failed"}
  /\ \A i \in 1..Len(subtask_results) :
       subtask_results[i].status = "ready_for_execution" =>
         /\ "optimized_context" \in DOMAIN subtask_results[i]
         /\ subtask_results[i].optimized_context.call \in 1..Len(opt_calls)
         /\ opt_calls[subtask_results[i].optimized_context.call].state = "done"
         /\ opt_calls[subtask_results[i].optimized_context.call].target =
              subtask_results[i].subtask_id
         /\ opt_calls[subtask_results[i].optimized_context.call].context =
              subtasks[i].context
         /\ \A j \in 1..Len(subtask_results) :
              (j # i /\ subtask_results[j].status = "ready_for_execution") =>
                subtask_results[j].optimized_context.call #
                  subtask_results[i].optimized_context.call

\* A scrum path returned after one subtask's Optimizer call completed and
\* another's raised.
C4_Witness ==
  /\ outcome = "result"
  /\ result.status = "subtasks_completed"
  /\ \E i, j \in 1..Len(result.subtask_results) :
       /\ result.subtask_results[i].status = "ready_for_execution"
       /\ result.subtask_results[j].status = "failed"

\* C5: the Evaluator's final verdict is never sufficient unless its confidence
\* is above the conservative default; with live validation off, the call never
\* enters the sufficient branch on a low or defaulted confidence.
C5_SufficientOnlyWhenConfident ==
  /\ evaluation.sufficient => evaluation.confidence > DefaultConfidence
  /\ (~enable_perplexity /\ branch = "sufficient") =>
       evaluation.confidence > DefaultConfidence

\* C6: when the agent fan-out has been joined, the entry handed to the
\* Consolidator for an agent whose batch raised is the empty list, the entry
\* of every other dispatched agent is the list its batch returned, and the
\* call is at the Consolidator, not failed.
C6_FanOutIsolation ==
  pc = "consolidate" =>
    /\ outcome = "none"
    /\ DOMAIN sub_agent_results = {a \in AgentNames : atasks[a] = "finished"}
    /\ \A a \in DOMAIN sub_agent_results :
         IF completed[a].kind = "raised"
           THEN sub_agent_results[a] = <<>>
           ELSE /\ completed[a].kind = "list"
                /\ sub_agent_results[a] = completed[a].value
                /\ Len(sub_agent_results[a]) = search_queries[a]

\* All four agents were dispatched, one batch raised and the other three
\* returned their records to the Consolidator.
C6_Witness ==
  /\ pc = "consolidate"
  /\ \E a \in AgentNames :
       /\ completed[a].kind = "raised"
       /\ \A b \in AgentNames \ {a} :
            /\ completed[b].kind = "list"
            /\ b \in DOMAIN sub_agent_results
            /\ sub_agent_results[b] # <<>>

\* C7: constructing the client and the orchestrator fails only when the
\* language-model credential is absent; an absent Capability Agent credential
\* does not fail it.
C7_OnlyLLMCredentialFatal ==
  constructed = "failed" => "OPENAI_API_KEY" \notin env

\* C8: the Consolidator is never in flight while a dispatched batch is still
\* running or waiting for a slot.
C8_JoinBeforeConsolidator ==
  pc = "consolidate" =>
    \A a \in AgentNames : atasks[a] \in {"none", "finished"}

\* The Consolidator was reached after four batches, admitted at most
\* max_concurrency at a time, had all ended.
C8_Witness ==
  /\ pc = "consolidate"
  /\ max_concurrency < Cardinality(AgentNames)
  /\ \A a \in AgentNames : atasks[a] = "finished"

\* C9: the external search calls in flight, validation queries and agent
\* batches counted together, never exceed max_concurrency.
C9_InFlightBound ==
  constructed = "ok" =>
    Cardinality(Running(vtasks)) + Cardinality(Running(atasks)) <= max_concurrency

\* C10: once the deadline of the call has fired, the call has ended with the
\* single timeout failure and no result, no fan-out task is running or
\* waiting, every semaphore slot is free again, and no subtask record or
\* verdict was made out of the expiry.
C10_DeadlineIsFinal ==
  expired =>
    /\ pc = "done"
    /\ outcome = "timeout"
    /\ result = NoResult
    /\ \A k \in CriterionNames : vtasks[k] # "running"
    /\ \A a \in AgentNames : atasks[a] \notin {"running", "waiting"}
    /\ sem_value = max_concurrency
    /\ sem_waiters = <<>>
    /\ subtask_results = <<>>
    /\ evaluation = NoAssessment

\* The deadline fired during the agent fan-out after one batch had ended:
\* an outstanding batch was cancelled and the call raised the timeout.
C10_Witness ==
  /\ expired
  /\ outcome = "timeout"
  /\ \E a, b \in AgentNames : atasks[a] = "cancelled" /\ atasks[b] = "finished"


\* C11: a sub-agent's search returns one record per query it was called with,
\* in the order of the queries: the list it returns is as long as the query
\* list and the record at each position names the query at that position,
\* whichever queries succeeded and whichever failed.
C11_OneRecordPerQuery ==
  search_pc = "returned" =>
    /\ Len(batch_results) = Len(batch_queries)
    /\ \A i \in 1..Len(batch_queries) : batch_results[i].query = batch_queries[i]

\* A search of two queries has returned, the first failed and the second
\* succeeded.
C11_Witness ==
  /\ search_pc = "returned"
  /\ Len(batch_queries) = 2
  /\ batch_results[1].success = FALSE
  /\ batch_results[2].success = TRUE

\* C12: a backend failure on one query never leaves search as an exception.
\* It becomes a record with success false and the error, for that query only;
\* the loop goes on to the queries after it, and the records appended before
\* it stay as they were.
C12_FailureIsARecord ==
  /\ [](search_pc # "raised")
  /\ [](\A i \in 1..Len(batch_results) :
          /\ batch_results[i].query = batch_queries[i]
          /\ batch_results[i].source = agent_name
          /\ IF batch_results[i].success
               THEN "error" \notin DOMAIN batch_results[i]
               ELSE /\ "result" \notin DOMAIN batch_results[i]
                    /\ batch_results[i].error \in BackendErrors)
  /\ [][search_pc' \in {"searching", "returned"} =>
          /\ Len(batch_results') >= Len(batch_results)
          /\ \A i \in 1..Len(batch_results) : batch_results'[i] = batch_results[i]
          /\ (batch_pending # <<>> =>
                /\ Len(batch_results') = Len(batch_results) + 1
                /\ batch_pending' = Tail(batch_pending))]_vars

\* A search of two queries has returned, the first succeeded and the second
\* failed with the backend's error.
C12_Witness ==
  /\ search_pc = "returned"
  /\ Len(batch_queries) = 2
  /\ batch_results[1].success = TRUE
  /\ batch_results[2].success = FALSE
  /\ batch_results[2].error = StageError

\* C13: _execute_subtasks never aborts: once the loop over the Decomposer's
\* subtasks is under way, no subtask's failure ends the enrich call with an
\* error; a call that ends there without the deadline firing returns one
\* record per subtask, in list order.
C13_FoldNeverAborts ==
  [][pc = "subtasks" =>
       /\ outcome' # "error"
       /\ (outcome' = "result" =>
             /\ Len(result'.subtask_results) = Len(subtasks)
             /\ \A i \in 1..Len(subtasks) :
                  result'.subtask_results[i].subtask_id = subtasks[i].id)]_vars

\* C14: a stage's response that parses but lacks a field the pipeline reads
\* (the Consolidator's enriched_context, the Decomposer's subtasks or a
\* subtask's id) is replaced by the stage's default: the enrich call never
\* ends with the KeyError of the missing field.
C14_MalformedOutputAbsorbed ==
  [][(pc \in {"consolidate", "scrum"} /\ outcome' = "error") =>
       tool_response'.error # KeyError]_vars

\* C15: with live validation off, a static assessment whose response could
\* not be parsed, or was parsed without its confidence field, leaves the
\* verdict at the default confidence and the call goes on into the
\* insufficient branch, to the Gap Analyzer, without failing.
C15_DefaultedVerdictGoesToEnrichment ==
  [][(/\ pc = "static"
      /\ ~enable_perplexity
      /\ outcome' = "none"
      /\ evaluation'.confidence = DefaultConfidence) =>
       (branch' = "enriched" /\ pc' = "thinking")]_vars

\* C16: evaluate returns exactly the static verdict, with no synthesis applied,
\* when live validation is off (and then no validation query is started) and
\* when it is on but every selected validation query failed or the synthesis
\* raised; in none of these cases does evaluate raise.
C16_StaticFallback ==
  [][/\ (pc = "static" /\ ~enable_perplexity /\ outcome' = "none" /\ pc' # "static") =>
          /\ vtasks' = NoTasks
          /\ \E response \in EvaluationResponses :
               evaluation' = _parse_evaluation_response(response)
     /\ (/\ pc = "synthesis"
         /\ \A k \in CriterionNames : vtasks[k] # "ok"
         /\ ~expired') =>
          /\ outcome' = "none"
          /\ evaluation'.sufficient = initial_assessment.sufficient
          /\ evaluation'.confidence = initial_assessment.confidence]_vars

\* C17: the validation queries of the selected criteria are started together
\* and all of them are joined before the synthesis call: while the synthesis
\* is in flight no query is still running, the findings hold an entry for
\* exactly the selected criteria, the entry of a criterion whose query failed
\* is the empty list, the entry of every other criterion is what its query
\* returned, and the call has not failed.
C17_ValidationFanOut ==
  /\ pc = "validating" =>
       /\ vtasks["gotchas"] # "none"
       /\ perplexity_validations = EmptyDict
  /\ pc = "synthesis" =>
       /\ outcome = "none"
       /\ \A k \in CriterionNames : vtasks[k] \in {"none", "ok", "failed"}
       /\ vtasks["gotchas"] # "none"
       /\ DOMAIN perplexity_validations = {k \in CriterionNames : vtasks[k] # "none"}
       /\ \A k \in DOMAIN perplexity_validations :
            perplexity_validations[k] = IF vtasks[k] = "failed" THEN <<>> ELSE <<k>>

\* The synthesis call is in flight after the query of one criterion failed
\* and the queries of two others returned.
C17_Witness ==
  /\ pc = "synthesis"
  /\ vtasks["completeness"] = "failed"
  /\ vtasks["relevance"] = "ok"
  /\ vtasks["gotchas"] = "ok"
  /\ perplexity_validations["completeness"] = <<>>
  /\ perplexity_validations["gotchas"] = <<"gotchas">>

\* C18: a hypercog_enrich call whose task or session_context is the empty
\* string is answered with status failed, the error "Input validation failed"
\* and details that name each empty field, and enrich was never entered: no
\* context was extracted, no verdict computed, no validation query, sub-agent
\* batch, Decomposer or Optimizer call started.
C18_EmptyInputRejected ==
  LET empty == {f \in {"task"} \cap DOMAIN arguments : arguments[f] = ""}
               \cup {f \in {"session_context"} \cap DOMAIN arguments :
                       arguments[f].tokens = 0}
  IN (name = "hypercog_enrich" /\ empty # {}) =>
       /\ pc = "done"
       /\ tool_response.status = "failed"
       /\ tool_response.error = "Input validation failed"
       /\ \A f \in empty : \E d \in tool_response.details : d.loc = f
       /\ outcome = "none"
       /\ result = NoResult
       /\ branch = "none"
       /\ current_context = NoContext
       /\ initial_assessment = NoAssessment
       /\ evaluation = NoAssessment
       /\ vtasks = NoTasks
       /\ atasks = NoAgents
       /\ iterations = 0
       /\ scrum_calls = <<>>
       /\ opt_calls = <<>>
       /\ ~expired

\* call_tool has answered a call whose task is filled in and whose
\* session_context is the empty string.
C18_Witness ==
  /\ pc = "done"
  /\ name = "hypercog_enrich"
  /\ arguments = [task |-> "task", session_context |-> EmptyContext]
  /\ tool_response.status = "failed"
  /\ tool_response.details = {[loc |-> "session_context", type |-> "string_too_short"]}

\* C19: whatever the tool name, the arguments and the outcome of the pipeline
\* (result, validation failure, timeout, stage failure), what call_tool
\* returns is the pipeline's result, with its status, or a record with status
\* failed and an error; no exception leaves call_tool.
C19_StructuredResponse ==
  /\ tool_response.status # "raised"
  /\ pc # "done" => tool_response = NoResponse
  /\ pc = "done" =>
       /\ tool_response.status \in {"ready_for_execution", "subtasks_completed", "failed"}
       /\ tool_response.status = "failed" => "error" \in DOMAIN tool_response
       /\ outcome = "result" => (tool_response = result /\ result.status # "failed")
       /\ outcome \in {"error", "timeout"} =>
            /\ tool_response.status = "failed"
            /\ DOMAIN tool_response = {"error", "status"}

\* call_tool has answered a call whose pipeline failed in a stage with the
\* structured failure record.
C19_Witness ==
  /\ pc = "done"
  /\ outcome = "error"
  /\ tool_response = [error |-> StageError, status |-> "failed"]

\* C20: an execute call of the Gap Analyzer returns after exactly
\* max_iterations = 3 rounds and as many chat_completion calls, one per round;
\* a round whose response does not parse adds no gap, leaves the current
\* understanding as it was and does not end the loop: the next round, or the
\* return after the third, follows.
C20_ThreeRounds ==
  /\ [](pc = "thought" =>
          (iterations = max_iterations /\ chat_completions = max_iterations))
  /\ [](pc = "thinking" =>
          (iterations < max_iterations /\ chat_completions = iterations))
  /\ [][(pc = "thinking" /\ iterations' = iterations + 1) =>
          /\ chat_completions' = chat_completions + 1
          /\ (iteration_result'.kind = "fallback" =>
                /\ all_gaps' = all_gaps
                /\ current_understanding' = current_understanding
                /\ pc' = IF iterations' < max_iterations THEN "thinking" ELSE "thought")]_vars

\* execute has returned after its third round failed to parse, with the gaps
\* and the refined understanding of the earlier rounds kept.
C20_Witness ==
  /\ pc = "thought"
  /\ iterations = 3
  /\ iteration_result.kind = "fallback"
  /\ all_gaps # {}
  /\ current_understanding = RefinedUnderstanding

\* C21: when the Consolidator's response does not parse, what the Consolidator
\* returns holds the original context, unmodified, as enriched_context, with
\* quality_score 0, and the call has not failed there: it went on to the size
\* gate of the enriched branch with that original context, which is the
\* context handed to the stage the gate chose.
C21_ConsolidatorNoOp ==
  consolidation.kind = "fallback" =>
    /\ consolidation.enriched_context = current_context
    /\ consolidation.quality_score = 0
    /\ enriched_context = current_context
    /\ estimated_tokens = 0
    /\ branch = "enriched"
    /\ outcome \in {"none", "result"}
    /\ pc \in {"optimize", "done"}
    /\ Len(opt_calls) = 1
    /\ opt_calls[1].target = "whole"
    /\ opt_calls[1].context = current_context

\* The Optimizer's call is in flight on the original context after the
\* Consolidator's response failed to parse.
C21_Witness ==
  /\ consolidation.kind = "fallback"
  /\ pc = "optimize"
  /\ current_context \in SessionContexts
  /\ opt_calls[1].context = current_context
  /\ opt_calls[1].state = "running"

C24_CriteriaSelection ==
  LET selected == {k \in CriterionNames : vtasks[k] # "none"} IN
  pc \in {"validating", "synthesis"} =>
    /\ "gotchas" \in selected
    /\ "completeness" \in selected =>
         \E f \in {"missing_elements", "missing_areas"} \cap DOMAIN initial_assessment :
           Len(initial_assessment[f]) > 0
    /\ "accuracy" \in selected =>
         \E i \in 1..Len(session_context) :
           \E w \in session_context[i] : w \in TechnicalKeywords
    /\ "relevance" \in selected =>
         \E d \in DOMAIN DomainKeywords : \E w \in prompt_text : w \in DomainKeywords[d]
    /\ "depth" \in selected =>
         /\ "complexity" \in DOMAIN initial_assessment
         /\ initial_assessment.complexity \in {"high", "expert"}
    /\ Cardinality(selected) <= 5
    /\ pc = "synthesis" => DOMAIN perplexity_validations = selected

\* The findings of a fan-out that started gotchas and depth only are returned:
\* the verdict listed no missing area, no line was technical and no domain
\* was inferred.
C24_Witness ==
  /\ pc = "synthesis"
  /\ DOMAIN perplexity_validations = {"depth", "gotchas"}
  /\ initial_assessment.complexity = "expert"
  /\ session_context = <<{"api"}>>
  /\ prompt_text = {}

\* C25: accuracy validation checks at most 3 claims and issues at most 3
\* research calls per evaluation; the cache is consulted before every research
\* call: a call is issued only for a claim whose key is not in the cache, and
\* every validation appended is the one the cache holds under the claim's key.
C25_CacheBeforeResearch ==
  /\ [](\A e \in Evaluations :
          Len(research_calls[e]) <= 3 /\ Len(validations[e]) <= 3)
  /\ [][\A e \in Evaluations :
          /\ Len(research_calls'[e]) > Len(research_calls[e]) =>
               cache_key(research_calls'[e][Len(research_calls'[e])])
                 \notin DOMAIN validation_cache'
          /\ \A i \in 1..Len(validations'[e]) :
               i > Len(validations[e]) =>
                 validations'[e][i] = validation_cache'[cache_key(technical_claims'[e][i])]
     ]_vars

\* C25: evaluation 1 was given four uncached claims and searched three of
\* them; evaluation 2 then returned validations without any research call.
C25_Witness ==
  /\ accuracy_pc = [e \in Evaluations |-> "returned"]
  /\ Len(technical_claims[1]) = 4
  /\ Len(research_calls[1]) = 3
  /\ technical_claims[2] # <<>>
  /\ research_calls[2] = <<>>
  /\ \A i \in 1..Len(validations[2]) : validations[2][i].by = 1

\* C26: the set of cache keys only grows, and the cache changes only when a
\* search awaited by _validate_accuracy returns.
C26_CacheOnlyGrows ==
  [][/\ DOMAIN validation_cache \subseteq DOMAIN validation_cache'
     /\ validation_cache' # validation_cache =>
          \E e \in Evaluations :
            /\ accuracy_pc[e] = "searching"
            /\ Len(validations'[e]) > Len(validations[e])
    ]_vars

\* C26: both evaluations have returned and the cache holds a key per claim.
C26_Witness ==
  /\ accuracy_pc = [e \in Evaluations |-> "returned"]
  /\ DOMAIN validation_cache = {cache_key(c) : c \in ClaimLines}
  /\ research_calls[1] # <<>>
  /\ research_calls[2] # <<>>

\* C27: when a search of evaluation e returns, the cache entry of its claim
\* is the validation e computed, whatever was stored there before, and e
\* appends that validation; an evaluation that searched a claim itself holds
\* its own validation for it.
C27_LastWriterWins ==
  /\ [](\A e \in Evaluations : \A i \in 1..Len(validations[e]) :
          /\ validations[e][i].claim = technical_claims[e][i]
          /\ (\E j \in 1..Len(research_calls[e]) :
                research_calls[e][j] = technical_claims[e][i])
               => validations[e][i].by = e)
  /\ [][\A e \in Evaluations :
          (accuracy_pc[e] = "searching" /\ Len(validations'[e]) > Len(validations[e])) =>
            LET claim == technical_claims[e][claim_index[e]]
            IN /\ validation_cache'[cache_key(claim)] = Validation(claim, e)
               /\ validations'[e][claim_index[e]] = Validation(claim, e)
     ]_vars

\* C27: both evaluations missed the cache for the same claim and searched it;
\* the cache holds the validation of evaluation 2, written last, and
\* evaluation 1 returned its own.
C27_Witness ==
  \E c \in ClaimLines :
    /\ accuracy_pc = [e \in Evaluations |-> "returned"]
    /\ technical_claims[1] = <<c>>
    /\ technical_claims[2] = <<c>>
    /\ research_calls[1] = <<c>>
    /\ research_calls[2] = <<c>>
    /\ validation_cache[cache_key(c)] = Validation(c, 2)
    /\ validations[1] = <<Validation(c, 1)>>
    /\ validations[2] = <<Validation(c, 2)>>

\* C28: after the rounds, every gap text reported by some round is in exactly
\* one of the lists critical, important, supplementary, and once; a text with
\* a critical keyword is critical whatever else it contains, a text with
\* neither kind of keyword is supplementary; nothing else is in the lists.
C28_GapPartition ==
  \A r \in Runs :
    synthesized[r] # NoGaps =>
      LET reported == {g \in GapTexts :
                         \E i \in 1..Len(round_outputs) :
                           /\ "gaps_identified" \in DOMAIN round_outputs[i]
                           /\ InList(g, round_outputs[i].gaps_identified)}
          lists == <<synthesized[r].critical, synthesized[r].important,
                     synthesized[r].supplementary>>
          places(g) == {<<k, i>> \in (1..3) \X (1..Len(GapOrder)) :
                          i <= Len(lists[k]) /\ lists[k][i] = g}
      IN /\ \A g \in reported : Cardinality(places(g)) = 1
         /\ \A g \in GapTexts \ reported : places(g) = {}
         /\ \A k \in 1..3 : Len(lists[k]) <= Len(GapOrder)
         /\ \A g \in reported :
              /\ lower(g) \cap {"must", "required", "critical", "essential"} # {}
                   => InList(g, lists[1])
              /\ lower(g) \cap {"must", "required", "critical", "essential",
                                "should", "important", "necessary"} = {}
                   => InList(g, lists[3])

\* C28: a text holding a critical and an important keyword was reported by
\* two rounds and is the one critical gap; the third text is important.
C28_Witness ==
  \E r \in Runs :
    /\ synthesized[r] # NoGaps
    /\ synthesized[r].critical = <<{"Must", "should", "API"}>>
    /\ synthesized[r].important = <<{"should", "how"}>>
    /\ synthesized[r].supplementary = <<>>
    /\ InList({"Must", "should", "API"}, Get(round_outputs[1], "gaps_identified", <<>>))
    /\ InList({"Must", "should", "API"}, Get(round_outputs[3], "gaps_identified", <<>>))

\* C29: every critical or important gap contributes exactly one query to the
\* perplexity list and one to the cognee_vector list, so both have length
\* |critical| + |important|; the cognee_kg list holds exactly the
\* critical/important gaps containing "how" or "what", the file_search list
\* exactly those containing "documentation" or "api"; a supplementary gap is
\* in no list.
C29_QueryDerivation ==
  \A r \in Runs :
    crafted[r] # NoQuerySet =>
      LET routed == {g \in GapTexts : InList(g, synthesized[r].critical)
                                        \/ InList(g, synthesized[r].important)}
          n == Len(synthesized[r].critical) + Len(synthesized[r].important)
          times(x, l) == Cardinality({i \in 1..Len(l) : l[i] = x})
      IN /\ Len(crafted[r].perplexity) = n
         /\ Len(crafted[r].cognee_vector) = n
         /\ \A g \in routed :
              /\ times(<<TaskText, g>>, crafted[r].perplexity) = 1
              /\ times(g, crafted[r].cognee_vector) = 1
              /\ times(g, crafted[r].cognee_kg) =
                   IF lower(g) \cap {"how", "what"} # {} THEN 1 ELSE 0
              /\ times(g, crafted[r].file_search) =
                   IF lower(g) \cap {"documentation", "api"} # {} THEN 1 ELSE 0
         /\ \A g \in GapTexts \ routed :
              /\ times(<<TaskText, g>>, crafted[r].perplexity) = 0
              /\ times(g, crafted[r].cognee_vector) = 0
              /\ times(g, crafted[r].cognee_kg) = 0
              /\ times(g, crafted[r].file_search) = 0

\* C29: a critical gap routed to file_search, an important one routed to
\* cognee_kg, and a supplementary gap containing "what" and "documentation".
C29_Witness ==
  \E r \in Runs :
    /\ crafted[r] # NoQuerySet
    /\ Len(crafted[r].perplexity) = 2
    /\ crafted[r].file_search = <<{"Must", "should", "API"}>>
    /\ crafted[r].cognee_kg = <<{"should", "how"}>>
    /\ synthesized[r].supplementary = <<{"what", "documentation"}>>

\* C30: two runs that were given the same round outputs return the same
\* search queries: for every collaborator the same queries in the same order.
C30_DeterministicQueries ==
  (crafted[1] # NoQuerySet /\ crafted[2] # NoQuerySet) => crafted[1] = crafted[2]

\* C31: subtasks are optimized one at a time in list order: only the last
\* Optimizer call of the enrich call can be in flight, the call in flight is
\* for the subtask right after those that have their record, the records
\* follow the list, and a subtask's call carries the composite session id
\* made of the parent's session id and the subtask's id.
C31_SequentialSubtasks ==
  /\ \A i \in 1..Len(opt_calls) : opt_calls[i].state = "running" => i = Len(opt_calls)
  /\ \A i \in 1..Len(subtask_results) : subtask_results[i].subtask_id = subtasks[i].id
  /\ \A i \in 1..Len(opt_calls) :
       opt_calls[i].session_id.kind = "subtask" =>
         /\ opt_calls[i].session_id.parent = session_ids[1]
         /\ opt_calls[i].session_id.subtask = opt_calls[i].target
  /\ pc = "subtasks" =>
       /\ Len(subtask_results) < Len(subtasks)
       /\ opt_calls[Len(opt_calls)].state = "running"
       /\ opt_calls[Len(opt_calls)].context = subtasks[Len(subtask_results) + 1].context
       /\ opt_calls[Len(opt_calls)].session_id =
            [kind |-> "subtask", parent |-> session_ids[1],
             subtask |-> subtasks[Len(subtask_results) + 1].id]
  /\ pc = "optimize" => opt_calls[Len(opt_calls)].session_id = session_ids[1]

\* C31: the first subtask has its record and the Optimizer call of the
\* second, with its own composite session id, is in flight.
C31_Witness ==
  /\ pc = "subtasks"
  /\ Len(subtasks) = 2
  /\ Len(subtask_results) = 1
  /\ subtask_results[1].status = "ready_for_execution"
  /\ Len(opt_calls) = 2
  /\ opt_calls[1].state = "done"
  /\ opt_calls[2].session_id.kind = "subtask"
  /\ opt_calls[2].session_id.subtask = 2

\* C32: every batch in progress holds exactly one slot of the limiter and a
\* batch that ended holds none, so free slots plus batches in progress make
\* the configured limit and at most that many batches run; the batches that
\* wait are queued in the order they asked and the first of the queue is
\* admitted next; when the enrich call has ended every slot is free again.
C32_AdmissionLimiter ==
  /\ [](constructed = "ok" =>
          /\ sem_value + Cardinality(Running(atasks)) = max_concurrency
          /\ Cardinality(Running(atasks)) <= max_concurrency
          /\ sem_value >= 0
          /\ {a \in AgentNames : atasks[a] = "waiting"}
               = {sem_waiters[i] : i \in 1..Len(sem_waiters)}
          /\ \A i, j \in 1..Len(sem_waiters) :
               i < j =>
                 \E m, n \in 1..Len(AgentOrder) :
                   m < n /\ AgentOrder[m] = sem_waiters[i] /\ AgentOrder[n] = sem_waiters[j]
          /\ sem_waiters # <<>> => sem_value = 0
          /\ pc = "done" => sem_value = max_concurrency /\ sem_waiters = <<>>)
  /\ [][\A a \in AgentNames :
          /\ (atasks[a] = "waiting" /\ atasks'[a] = "running") => a = Head(sem_waiters)
          /\ (atasks[a] = "none" /\ atasks'[a] = "running") => sem_value' < sem_value
          /\ (atasks[a] = "finished") => atasks'[a] \in {"finished", "none"}
     ]_vars

\* C32: with one slot, a batch has ended, the batch that asked next runs in
\* its place and another still waits.
C32_Witness ==
  /\ max_concurrency = 1
  /\ sem_value = 0
  /\ \E a, b, c \in AgentNames :
       atasks[a] = "finished" /\ atasks[b] = "running" /\ atasks[c] = "waiting"

\* C33: the stages of an enrich call are passed in one direction: a step that
\* changes the await the call is suspended at moves it forward in the order
\* static assessment, validation, synthesis, gap analysis, agent fan-out,
\* consolidation, Optimizer or Decomposer, subtasks, end; the Decomposer is
\* called at most once; and a call in the sufficient branch has made no Gap
\* Analyzer round, dispatched no agent, taken no slot and called no Consolidator.
C33_StagesOnce ==
  /\ [][LET order == <<"idle", "static", "validating", "synthesis", "thinking",
                       "dispatch", "consolidate", "scrum", "optimize", "subtasks", "done">>
            rank(p) == CHOOSE i \in 1..Len(order) : order[i] = p
        IN pc' # pc =>
             /\ rank(pc) < rank(pc')
             /\ (pc = "scrum" => pc' # "optimize")
             /\ (pc' = "static" => pc = "idle")
             /\ (pc' \in {"validating", "synthesis"} => pc \in {"static", "validating"})
     ]_vars
  /\ [](Len(scrum_calls) <= 1)
  /\ [](pc = "optimize" => Len(opt_calls) = 1)
  /\ [](branch = "sufficient" =>
          /\ pc \in {"optimize", "scrum", "subtasks", "done"}
          /\ iterations = 0
          /\ chat_completions = 0
          /\ search_queries = NoQueries
          /\ atasks = NoAgents
          /\ sem_value = max_concurrency
          /\ sem_waiters = <<>>
          /\ sub_agent_results = EmptyDict
          /\ consolidation = NoConsolidation)
  /\ [][branch' = "sufficient" /\ branch # "sufficient" =>
          pc \in {"static", "validating", "synthesis"}]_vars

\* C33: a call returned on a sufficient path after the validation fan-out
\* and the synthesis, with no enrichment stage entered.
C33_Witness ==
  /\ pc = "done"
  /\ outcome = "result"
  /\ branch = "sufficient"
  /\ perplexity_agent = "agent"
  /\ result.path = "sufficient_too_large_scrum"
  /\ Len(scrum_calls) = 1
  /\ consolidation = NoConsolidation

\* C34: a language-model call that raises in the static assessment, a Gap
\* Analyzer round, the Consolidator, the Decomposer or the Optimizer of a
\* manageable path ends the enrich call with that failure and no result;
\* an Optimizer failure for a subtask becomes that subtask's failed record
\* and is never the failure the enrich call raises.
C34_StageFailurePropagates ==
  /\ [](outcome = "error" =>
          /\ pc = "done"
          /\ result = NoResult
          /\ tool_response.status = "failed"
          /\ subtask_results = <<>>)
  /\ [][(pc \in {"static", "thinking", "consolidate", "scrum", "optimize"}
         /\ outcome' = "error" /\ tool_response'.error = StageError)
          => (pc' = "done" /\ result' = NoResult /\ opt_calls' = <<>>)]_vars
  /\ [][pc = "subtasks" =>
          /\ outcome' = "error" => tool_response'.error # StageError
          /\ (Len(opt_calls') >= Len(opt_calls)
              /\ opt_calls'[Len(opt_calls)].state = "raised") =>
               /\ Len(subtask_results') > Len(subtask_results)
               /\ subtask_results'[Len(subtask_results) + 1].status = "failed"
               /\ subtask_results'[Len(subtask_results) + 1].error = StageError
               /\ subtask_results'[Len(subtask_results) + 1].subtask_id
                    = subtasks[Len(subtask_results) + 1].id
     ]_vars

\* C34: the Optimizer raised for the first subtask and returned for the
\* second; the enrich call returned both records.
C34_Witness ==
  /\ pc = "done"
  /\ outcome = "result"
  /\ Len(subtask_results) = 2
  /\ subtask_results[1].status = "failed"
  /\ subtask_results[1].error = StageError
  /\ subtask_results[2].status = "ready_for_execution"
  /\ opt_calls[1].state = "raised"

\* C35: the context handed to the Optimizer on the path enriched_manageable
\* counts at most max_tokens_per_task tokens.
C35_EnrichedGateBounds ==
  (pc = "optimize" /\ branch = "enriched") =>
    count_tokens(opt_calls[Len(opt_calls)].context) <= max_tokens_per_task

\* C36: exactly the collaborators with a non-empty query list get a task, and
\* the results map handed to the Consolidator has exactly their names as keys;
\* when all four query lists are empty no task exists, every limiter slot stays
\* free, the Consolidator is called at once with an empty map, and the call
\* goes on through the size gate of the enriched branch.
C36_OnlyQueriedDispatched ==
  /\ [](pc = "dispatch" =>
          \A a \in AgentNames : (atasks[a] # "none") <=> (search_queries[a] > 0))
  /\ [](pc = "consolidate" =>
          /\ DOMAIN sub_agent_results = {a \in AgentNames : search_queries[a] > 0}
          /\ (search_queries = NoQueries =>
                /\ sub_agent_results = EmptyDict
                /\ atasks = NoAgents
                /\ completed = NothingCompleted
                /\ sem_value = max_concurrency
                /\ sem_waiters = <<>>))
  /\ [][/\ (pc = "thinking" /\ pc' = "dispatch" => search_queries' # NoQueries)
        /\ (pc = "thinking" /\ pc' = "consolidate" =>
              search_queries' = NoQueries /\ sem_value' = sem_value)
        /\ (pc = "consolidate" /\ pc' \in {"optimize", "scrum"} =>
              branch' = "enriched")]_vars

C36_Witness ==
  /\ pc = "consolidate"
  /\ search_queries = NoQueries
  /\ sub_agent_results = EmptyDict
  /\ atasks = NoAgents
  /\ sem_value = max_concurrency

\* C37: two enrich calls that were given no session id have different session
\* ids, and neither call's context file or optimized-output file is ever
\* replaced by the other call's.
C37_DistinctSessionIds ==
  /\ [](\A c, d \in Calls :
          (c # d /\ session_ids[c] # NoSession /\ session_ids[d] # NoSession)
            => session_ids[c] # session_ids[d])
  /\ [][/\ \A f \in DOMAIN prompt_store : prompt_store'[f] = prompt_store[f]
        /\ \A f \in DOMAIN optimized_folder : optimized_folder'[f] = optimized_folder[f]]_vars

\* C38: every entry of the validation cache was built from a search that
\* returned for its claim; a search that raises leaves the cache as it was and
\* its criterion with an empty list, the entries written earlier in the same
\* validation included.
C38_CacheHoldsCompletedResearch ==
  /\ [](\A k \in DOMAIN validation_cache :
          \E e \in Evaluations :
            \E j \in 1..Len(research_calls[e]) :
              /\ cache_key(research_calls[e][j]) = k
              /\ validation_cache[k] =
                   [criterion |-> "accuracy", claim |-> research_calls[e][j], by |-> e]
              /\ (j < Len(research_calls[e]) \/ accuracy_pc[e] = "returned"))
  /\ [][\A e \in Evaluations :
          (accuracy_pc[e] = "searching" /\ accuracy_pc'[e] = "raised") =>
            /\ validation_cache' = validation_cache
            /\ validations'[e] = <<>>]_vars

C38_Witness ==
  \E e \in Evaluations :
    /\ accuracy_pc[e] = "raised"
    /\ claim_index[e] > 1
    /\ validations[e] = <<>>
    /\ \A j \in 1..(claim_index[e] - 1) :
         /\ cache_key(technical_claims[e][j]) \in DOMAIN validation_cache
         /\ validation_cache[cache_key(technical_claims[e][j])].by = e

\* C39: when the validations ran and the synthesis response does not parse,
\* evaluate returns the conservative default (not sufficient, confidence 0.3)
\* whatever the static verdict was, and enrich takes the enrichment branch;
\* every verdict evaluate returns has the fields sufficient and confidence.
C39_SynthesisParseFailureDefault ==
  /\ [][(/\ pc = "synthesis"
         /\ synthesis_response.kind = "malformed"
         /\ pc' \notin {"synthesis", "done"}) =>
          /\ evaluation' = [sufficient |-> FALSE, confidence |-> DefaultConfidence,
                            reasoning |-> "Failed to parse evaluation response"]
          /\ pc' = "thinking"
          /\ branch' = "enriched"
          /\ opt_calls' = opt_calls]_vars
  /\ [][(pc \in {"static", "synthesis"} /\ pc' \notin {"static", "validating", "synthesis", "done"}) =>
          /\ {"sufficient", "confidence"} \subseteq DOMAIN evaluation'
          /\ evaluation'.sufficient \in BOOLEAN
          /\ evaluation'.confidence \in ConfidenceValues \cup {DefaultConfidence}]_vars

C39_Witness ==
  /\ pc = "thinking"
  /\ branch = "enriched"
  /\ enable_perplexity
  /\ perplexity_agent = "agent"
  /\ evaluation = [sufficient |-> FALSE, confidence |-> DefaultConfidence,
                   reasoning |-> "Failed to parse evaluation response"]

\* C40: an enrich call under a finite deadline ends, and ends with a result,
\* with a stage failure or with a timeout failure, a result being present
\* exactly when the outcome is a result; no tasks, waiters or held slots are
\* left behind.
C40_EnrichTerminates ==
  /\ (pc \notin {"idle", "done"}) ~>
       (pc = "done" /\ outcome \in {"result", "error", "timeout"})
  /\ [](pc = "done" =>
          /\ (outcome = "result") <=> (result # NoResult)
          /\ \A a \in AgentNames : atasks[a] \notin {"running", "waiting"}
          /\ sem_waiters = <<>>
          /\ sem_value = max_concurrency)
  /\ [](expired => pc = "done" /\ outcome = "timeout")

C40_Witness ==
  /\ pc = "done"
  /\ outcome = "timeout"
  /\ expired
  /\ result = NoResult
  /\ sem_value = max_concurrency
  /\ sem_waiters = <<>>

====
